---- MODULE Spec2Model ----
(***************************************************************************)
(* PicoPTS: Elliott 900 paper tape station emulator for the Raspberry Pi   *)
(* Pico.  Two revisions of the emulator are modelled:                      *)
(*   - the 20/11/2023 revision (debounced sampling, request_type switch,   *)
(*     read_input / punch_output), specification Spec;                     *)
(*   - the 31/10/2023 revision (operator command switch, timed devices,    *)
(*     put_pts_ch / get_pts_ch), specification SpecOct.                    *)
(* A GPIO word (uint32_t) is the set of the bit positions that are 1, so   *)
(* that &, | and ^ are set operations; the highest pin used is 28 and no   *)
(* shift of the program moves a bit past position 31.                      *)
(***************************************************************************)
EXTENDS Integers, Sequences, FiniteSets, TLC

VARIABLES
  pc,         \* position of core 0 in pts_emulation and its callees
  ret,        \* where gpio_debounce returns to
  wret,       \* where wait_for_no_request returns to
  gpio_out,   \* levels of the output pins, as a GPIO word
  blink,      \* global blink: blink time in ms
  fail_code,  \* value returned by setjmp (0 until a longjmp occurs)
  sent,       \* bytes written to the serial port since the loop iteration began
  data,       \* result of getchar_timeout_us in the polling loop
  request,    \* the sample under decoding or under test
  tty,        \* argument tty of the transfer routine
  ch,         \* character being transferred
  count,      \* gpio_debounce: count
  last,       \* gpio_debounce: last
  next,       \* gpio_debounce: next (the value it returns)
  repeat,     \* history: a sample of this call equalled the one before it
  buffer,     \* read_input: static buffer, entries 1..Len(buffer) written so far
  buf_ptr,    \* read_input: static buf_ptr
  buf_len,    \* read_input: static buf_len
  fill_i,     \* read_input: loop index i of the block fill
  reply,      \* history: the data bytes of the operator's last reply to 'R'
  now,        \* the microsecond clock (31/10/2023 revision)
  reader_free, punch_free, tty_free,   \* device deadlines
  reader_time, punch_time, tty_time,   \* device periods
  xfer,       \* history: progress of the transfer being served (its ACK pulse);
              \* "restart" from a (re)start until 'Z' has been sent
  last_gate,  \* history: per device, when its last gate passed and the period used
  gates,      \* history: number of gates passed
  gated,      \* history: the waits on and settings of deadlines in this transfer
  punLines,   \* environment: values the 920M drives on the punch data lines
  opBytes,    \* environment: data bytes the operator application sends
  opCounts,   \* environment: count bytes the operator sends in reply to 'R'
  logLevels,  \* environment: levels the logging switch (LOG_PIN) takes
  steady,     \* environment: the input lines hold still while being debounced
  pc1,        \* position of the second thread: blinker, or monitor in the
              \* flash-code test program
  led_state,  \* blinker: static led_state
  blink_seen, \* blinker: the value of blink found by the test of this iteration
  slept,      \* blinker: argument of its last sleep_ms, 0 before the first
  monitoring, \* flash-code test program: volatile monitoring
  flash_j,    \* flash-code test program: index j of the flash loop
  polls,      \* picopts.c wait_for_no_request: count
  max_poll,   \* picopts.c: static max_poll
  cycles,     \* picopts.c: static cycles
  logging_enabled,  \* picopts.c: global logging_enabled
  holdPolls,  \* environment: the numbers of polls after which the 920M may
              \* have withdrawn an acknowledged request
  loop_i,     \* picopts.c loopback_test: i
  loop_j,     \* picopts.c loopback_test: j
  errors      \* picopts.c loopback_test: errors

dbv   == <<count, last, next, repeat>>
bufv  == <<buffer, buf_ptr, buf_len, fill_i, reply>>
timev == <<now, reader_free, punch_free, tty_free,
           reader_time, punch_time, tty_time, last_gate, gates, gated>>
envv  == <<punLines, opBytes, opCounts, logLevels, steady>>
blinkv == <<pc1, led_state, blink_seen, slept>>
flashv == <<monitoring, flash_j>>
junev == <<polls, max_poll, cycles, logging_enabled, holdPolls>>
loopv == <<loop_i, loop_j, errors>>
vars  == <<pc, ret, wret, gpio_out, blink, fail_code, sent, data, request,
           tty, ch, xfer, dbv, bufv, timev, envv, blinkv, flashv, junev, loopv>>

(***************************************************************************)
(* Bounds of the model.                                                    *)
(***************************************************************************)
\* largest count byte the operator sends in reply to 'R'
MaxCount == 1
\* no time-out of getchar_timeout_us(1000) is taken beyond this time (us)
MaxTime == 4000
\* number of gates (timed transfers) followed
MaxGates == 2

(***************************************************************************)
(* GPIO pins and bit positions.                                            *)
(***************************************************************************)
RDR_1_PIN == 2
PUN_1_PIN == 10
IO_PIN == 18
ACK_PIN == 19
II_AUTO_PIN == 20
TTYSEL_PIN == 21
RDRREQ_PIN == 22
LED_PIN == 25
PUNREQ_PIN == 26
LOG_PIN == 27
STATUS_PIN == 28

\* the uint32_t whose value is the byte c, and the value of a word below 256
WordOf(c) == {k \in 0..7 : (c \div (2 ^ k)) % 2 = 1}
RECURSIVE ValueOf(_)
ValueOf(w) ==
  IF w = {} THEN 0
  ELSE LET k == CHOOSE x \in w : TRUE IN (2 ^ k) + ValueOf(w \ {k})

\* x << n and x >> n
Shl(x, n) == {k + n : k \in x}
Shr(x, n) == {k - n : k \in {j \in x : j >= n}}

\* x & y, x | y and x ^ y
BitAnd(x, y) == x \cap y
BitOr(x, y) == x \cup y
BitXor(x, y) == (x \ y) \cup (y \ x)

LOG_BIT == Shl(WordOf(1), LOG_PIN)
RDR_1_BIT == Shl(WordOf(1), RDR_1_PIN)
PUN_1_BIT == Shl(WordOf(1), PUN_1_PIN)
RDRREQ_BIT == Shl(WordOf(1), RDRREQ_PIN)
PUNREQ_BIT == Shl(WordOf(1), PUNREQ_PIN)
TTYSEL_BIT == Shl(WordOf(1), TTYSEL_PIN)
REQ_BITS == BitOr(BitOr(RDRREQ_BIT, PUNREQ_BIT), TTYSEL_BIT)
RDR_PINS_MASK == Shl(WordOf(255), RDR_1_PIN)
PUN_PINS_MASK == Shl(WordOf(255), PUN_1_PIN)

in_pins == <<RDRREQ_PIN, PUNREQ_PIN, TTYSEL_PIN, PUN_1_PIN,
             PUN_1_PIN + 1, PUN_1_PIN + 2, PUN_1_PIN + 3, PUN_1_PIN + 4,
             PUN_1_PIN + 5, PUN_1_PIN + 6, PUN_1_PIN + 7, LOG_PIN>>
out_pins == <<ACK_PIN, II_AUTO_PIN, IO_PIN, STATUS_PIN, LED_PIN,
              RDR_1_PIN, RDR_1_PIN + 1, RDR_1_PIN + 2, RDR_1_PIN + 3,
              RDR_1_PIN + 4, RDR_1_PIN + 5, RDR_1_PIN + 6, RDR_1_PIN + 7>>

\* setup_gpios: mask |= (1 << pins[i]) for every i
RECURSIVE PinsMask(_)
PinsMask(pins) ==
  IF pins = <<>> THEN {}
  ELSE BitOr(Shl(WordOf(1), Head(pins)), PinsMask(Tail(pins)))

in_pins_mask == PinsMask(in_pins)
out_pins_mask == PinsMask(out_pins)

\* request types
NONE == 0
READER == 1
READ_TTY == 2
PUNCH == 3
WRITE_TTY == 4
BAD == 5

COMMAND_FAIL == 1
READ_PROTOCOL_FAIL == 2
PUNCH_PROTOCOL_FAIL == 3
REQUEST_FAIL == 4

FAST_BLINK == 250
SLOW_BLINK == 1000
NO_BLINK == 0

PICO_ERROR_TIMEOUT == -1

\* Duration of the ACK pulse and of i/o operations, in microseconds
ACK_TIME == 2
FAST_TTY == 5
SLOW_READER == 4000
FAST_READER == 5
SLOW_TTY == 100000
FAST_PUNCH == 5
SLOW_PUNCH == 9091
GETCHAR_TIMEOUT == 1000

(***************************************************************************)
(* The serial stream.  A character is its ASCII code; the text of a log    *)
(* message (which holds no newline) is one item above 255, Text(k).        *)
(***************************************************************************)
NUL == 0
NL == 10
CharD == 68
CharL == 76
CharP == 80
CharQ == 81
CharR == 82
CharS == 83
CharZ == 90
DEL == 255

Text(k) == 256 + k
\* printf("L<text>\n") and puts_raw("L<text>")
LogLine(k) == <<CharL, Text(k), NL>>

\* error_messages[i], i from 0
error_messages(i) == Text(i + 1)
MsgHaltedAfterError == 10
MsgSignals == 11
MsgHalted == 12
MsgStarting == 13
MsgWaiting == 14
MsgPolling == 15
MsgNulIgnored == 16
MsgDelIgnored == 17
MsgSlowDevices == 18
MsgFastDevices == 19
MsgUnrecognized == 20

\* "LPicoPTS - Halted after error - %s\n"
HaltedAfterError(code) ==
  <<CharL, Text(MsgHaltedAfterError), error_messages(code - 1), NL>>

(***************************************************************************)
(* GPIO primitives of the Pico SDK.                                        *)
(***************************************************************************)
\* a gpio_put that drives the pin high whatever the value
gpio_put_high(out, pin, value) == BitOr(out, Shl(WordOf(1), pin))

\* gpio_put(pin, value)
gpio_put(out, pin, value) ==
  IF value # 0 THEN BitOr(out, Shl(WordOf(1), pin))
  ELSE out \ Shl(WordOf(1), pin)

\* a masked write that drives every line from value, whatever the mask
gpio_put_masked_all(out, mask, value) == value

\* gpio_put_masked(mask, value): gpio_xor_mask((out ^ value) & mask)
gpio_put_masked(out, mask, value) ==
  BitXor(out, BitAnd(BitXor(out, value), mask))

\* lines driven by the 920M and the logging switch
HostLines(r, p, t, l, d) ==
  (IF r = 1 THEN RDRREQ_BIT ELSE {}) \cup (IF p = 1 THEN PUNREQ_BIT ELSE {})
    \cup (IF t = 1 THEN TTYSEL_BIT ELSE {}) \cup (IF l = 1 THEN LOG_BIT ELSE {})
    \cup Shl(WordOf(d), PUN_1_PIN)

InputWords ==
  {HostLines(r, p, t, l, d) :
     r \in 0..1, p \in 0..1, t \in 0..1, l \in logLevels, d \in punLines}

\* gpio_get_all(): every pin, inputs as driven by the host and outputs as set
gpio_get_all(w) == BitOr(w, gpio_out)

\* the values gpio_get_all() & in_pins_mask can take, and those it can take
\* right after it took the value prev within one call of gpio_debounce
Samples == {BitAnd(gpio_get_all(w), in_pins_mask) : w \in InputWords}
Resamples(prev) == IF steady THEN {prev} ELSE Samples

(***************************************************************************)
(* Pure functions of the 20/11/2023 revision.                              *)
(***************************************************************************)
\* request_type without the test of the select line
request_type_no_select(req) ==
  LET rp == BitAnd(req, BitOr(RDRREQ_BIT, PUNREQ_BIT)) IN
    IF rp = RDRREQ_BIT THEN READER
    ELSE IF rp = PUNREQ_BIT THEN PUNCH
    ELSE IF rp = {} THEN NONE
    ELSE BAD

\* request_type
request_type(req) ==
  LET rp == BitAnd(req, BitOr(RDRREQ_BIT, PUNREQ_BIT)) IN
    IF rp = RDRREQ_BIT THEN
      IF BitAnd(req, TTYSEL_BIT) # {} THEN READ_TTY ELSE READER
    ELSE IF rp = PUNREQ_BIT THEN
      IF BitAnd(req, TTYSEL_BIT) # {} THEN WRITE_TTY ELSE PUNCH
    ELSE IF rp = {} THEN NONE
    ELSE BAD

\* get_punch_data without the shift down to bit 0
get_punch_data_unshifted(req) == ValueOf(BitAnd(req, WordOf(255)))

\* get_punch_data
get_punch_data(req) == ValueOf(BitAnd(Shr(req, PUN_1_PIN), WordOf(255)))

\* put_read_data without the shift up to the reader pins
put_read_data_unshifted(out, c) == gpio_put_masked(out, RDR_PINS_MASK, WordOf(c))

\* put_read_data
put_read_data(out, c) == gpio_put_masked(out, RDR_PINS_MASK, Shl(WordOf(c), RDR_1_PIN))

\* io_on, io_off, cancel_ack
io_on(out) == gpio_put(out, IO_PIN, 1)
io_off(out) == gpio_put(out, IO_PIN, 0)
cancel_ack(out) == gpio_put(out, ACK_PIN, 0)

\* logging(): gpio_debounce() & LOG_BIT, read where gpio_debounce has returned
logging == BitAnd(next, LOG_BIT) # {}

\* a loop condition of wait_for_no_request that looks at the select line only
RequestPending_select(req) == BitAnd(req, TTYSEL_BIT) # {}

\* wait_for_no_request: the loop condition on the debounced sample
RequestPending(req) == BitAnd(req, REQ_BITS) # {}

(***************************************************************************)
(* gpio_debounce.  A caller sets ret and moves to "gpio_debounce"; the     *)
(* value returned is next, read by the caller at ret.                      *)
(***************************************************************************)
CallDebounce(r) == pc' = "gpio_debounce" /\ ret' = r

\* the locals of gpio_debounce are dead once its caller has used the result
DebounceUsed == count' = 0 /\ last' = {} /\ next' = {} /\ repeat' = FALSE

\* the test that ends the loop
DebounceDone(c) == c >= 2

\* uint32_t count = 1, last = 0, next = gpio_get_all() & in_pins_mask
gpio_debounce_enter ==
  /\ pc = "gpio_debounce"
  /\ count' = 1
  /\ last' = {}
  /\ next' \in Samples
  /\ repeat' = FALSE
  /\ pc' = "gpio_debounce_loop"
  /\ UNCHANGED <<ret, wret, gpio_out, blink, fail_code, sent, data, request,
                 tty, ch, xfer, bufv, timev, envv, blinkv, flashv, junev, loopv>>

\* one iteration of while ( TRUE )
gpio_debounce_loop ==
  /\ pc = "gpio_debounce_loop"
  /\ IF DebounceDone(count)
       THEN /\ pc' = ret
            /\ UNCHANGED dbv
       ELSE /\ count' = IF last = next THEN count + 1 ELSE 0
            /\ last' = next
            /\ next' \in Resamples(next)
            /\ repeat' = (repeat \/ next' = next)
            /\ pc' = pc
  /\ UNCHANGED <<ret, wret, gpio_out, blink, fail_code, sent, data, request,
                 tty, ch, xfer, bufv, timev, envv, blinkv, flashv, junev, loopv>>

(***************************************************************************)
(* pts_emulation, 20/11/2023: fault handler and restart sequence.          *)
(***************************************************************************)
\* longjmp(jbuf, code): setjmp returns code
longjmp(code) == fail_code' = code /\ pc' = "handler"

\* if ( fail_code = setjmp(jbuf) ): the first return, 0
setjmp ==
  /\ pc = "setjmp"
  /\ fail_code' = 0
  /\ pc' = "drain"
  /\ UNCHANGED <<ret, wret, gpio_out, blink, sent, data, request,
                 tty, ch, xfer, dbv, bufv, timev, envv, blinkv, flashv, junev, loopv>>

\* blink = FAST_BLINK
handler_blink ==
  /\ pc = "handler"
  /\ blink' = FAST_BLINK
  /\ pc' = "handler_cancel"
  /\ UNCHANGED <<ret, wret, gpio_out, fail_code, sent, data, request,
                 tty, ch, xfer, dbv, bufv, timev, envv, blinkv, flashv, junev, loopv>>

\* cancel_ack()
handler_cancel ==
  /\ pc = "handler_cancel"
  /\ gpio_out' = cancel_ack(gpio_out)
  /\ pc' = "handler_io_off"
  /\ UNCHANGED <<ret, wret, blink, fail_code, sent, data, request,
                 tty, ch, xfer, dbv, bufv, timev, envv, blinkv, flashv, junev, loopv>>

\* io_off(), then the call of logging()
handler_io_off ==
  /\ pc = "handler_io_off"
  /\ gpio_out' = io_off(gpio_out)
  /\ CallDebounce("handler_logging")
  /\ UNCHANGED <<wret, blink, fail_code, sent, data, request,
                 tty, ch, xfer, dbv, bufv, timev, envv, blinkv, flashv, junev, loopv>>

\* if ( logging() ) { printf(...); signals(); halt(); } and otherwise
\* control leaves the if statement and continues with the restart sequence
handler_logging ==
  /\ pc = "handler_logging"
  /\ DebounceUsed
  /\ IF logging
       THEN /\ sent' = sent \o HaltedAfterError(fail_code)
            /\ pc' = "handler_signals"
            /\ xfer' = xfer
       ELSE /\ sent' = sent
            /\ pc' = "drain"
            /\ xfer' = "restart"
  /\ UNCHANGED <<ret, wret, gpio_out, blink, fail_code, data, request,
                 tty, ch, bufv, timev, envv, blinkv, flashv, junev, loopv>>

\* signals(gpio_get_all()), then halt() calls logging()
handler_signals ==
  /\ pc = "handler_signals"
  /\ sent' = sent \o LogLine(MsgSignals)
  /\ CallDebounce("halt_logging")
  /\ UNCHANGED <<wret, gpio_out, blink, fail_code, data, request,
                 tty, ch, xfer, dbv, bufv, timev, envv, blinkv, flashv, junev, loopv>>

\* halt(): if ( logging() ) printf("LPicoPTS - Halted\n"); then sleep for ever
halt ==
  /\ pc = "halt_logging"
  /\ DebounceUsed
  /\ sent' = IF logging THEN sent \o LogLine(MsgHalted) ELSE sent
  /\ pc' = "halted"
  /\ UNCHANGED <<ret, wret, gpio_out, blink, fail_code, data, request,
                 tty, ch, xfer, bufv, timev, envv, blinkv, flashv, junev, loopv>>

\* while ( getchar_timeout_us(0) != PICO_ERROR_TIMEOUT );
drain ==
  /\ pc = "drain"
  /\ \E c \in {PICO_ERROR_TIMEOUT} \cup opBytes :
       pc' = IF c = PICO_ERROR_TIMEOUT THEN "restart_signal" ELSE "drain"
  /\ UNCHANGED <<ret, wret, gpio_out, blink, fail_code, sent, data, request,
                 tty, ch, xfer, dbv, bufv, timev, envv, blinkv, flashv, junev, loopv>>

\* a restart sequence that ends the pending lines but sends no 'Z'
restart_signal_no_tag ==
  /\ pc = "restart_signal"
  /\ sent' = sent \o <<NUL, NL>>
  /\ CallDebounce("starting_logging")
  /\ UNCHANGED <<wret, gpio_out, blink, fail_code, data, request,
                 tty, ch, xfer, dbv, bufv, timev, envv, blinkv, flashv, junev, loopv>>

\* putchar_raw('\x00'); putchar_raw('\n'); putchar_raw('Z'); then logging()
restart_signal ==
  /\ pc = "restart_signal"
  /\ sent' = sent \o <<NUL, NL, CharZ>>
  /\ xfer' = "idle"
  /\ CallDebounce("starting_logging")
  /\ UNCHANGED <<wret, gpio_out, blink, fail_code, data, request,
                 tty, ch, dbv, bufv, timev, envv, blinkv, flashv, junev, loopv>>

\* if ( logging() ) puts_raw("LPicoPTS - Starting emulator")
starting_logging ==
  /\ pc = "starting_logging"
  /\ DebounceUsed
  /\ sent' = IF logging THEN sent \o LogLine(MsgStarting) ELSE sent
  /\ pc' = "set_slow"
  /\ UNCHANGED <<ret, wret, gpio_out, blink, fail_code, data, request,
                 tty, ch, xfer, bufv, timev, envv, blinkv, flashv, junev, loopv>>

\* blink = SLOW_BLINK, then logging()
set_slow ==
  /\ pc = "set_slow"
  /\ blink' = SLOW_BLINK
  /\ CallDebounce("waiting_logging")
  /\ UNCHANGED <<wret, gpio_out, fail_code, sent, data, request,
                 tty, ch, xfer, dbv, bufv, timev, envv, blinkv, flashv, junev, loopv>>

\* if ( logging() ) puts_raw(...Waiting...); wait_for_no_request()
waiting_logging ==
  /\ pc = "waiting_logging"
  /\ DebounceUsed
  /\ sent' = IF logging THEN sent \o LogLine(MsgWaiting) ELSE sent
  /\ CallDebounce("wait_for_no_request")
  /\ wret' = "polling"
  /\ UNCHANGED <<gpio_out, blink, fail_code, data, request,
                 tty, ch, xfer, bufv, timev, envv, blinkv, flashv, junev, loopv>>

\* wait_for_no_request: while ( ((request = gpio_debounce()) & REQ_BITS) != 0 )
\*                        sleep_us(1u);
wait_for_no_request ==
  /\ pc = "wait_for_no_request"
  /\ DebounceUsed
  /\ IF RequestPending(next)
       THEN /\ CallDebounce("wait_for_no_request")
            /\ xfer' = xfer
       ELSE /\ pc' = wret
            /\ ret' = ret
            /\ xfer' = IF xfer = "acked" /\ BitAnd(next, BitOr(RDRREQ_BIT, PUNREQ_BIT)) = {}
                         THEN "idle" ELSE xfer
  /\ UNCHANGED <<wret, gpio_out, blink, fail_code, sent, data, request,
                 tty, ch, bufv, timev, envv, blinkv, flashv, junev, loopv>>

\* the call of logging() before polling starts
polling ==
  /\ pc = "polling"
  /\ CallDebounce("polling_logging")
  /\ UNCHANGED <<wret, gpio_out, blink, fail_code, sent, data, request,
                 tty, ch, xfer, dbv, bufv, timev, envv, blinkv, flashv, junev, loopv>>

\* if ( logging() ) puts_raw(...Starting polling...)
polling_logging ==
  /\ pc = "polling_logging"
  /\ DebounceUsed
  /\ sent' = IF logging THEN sent \o LogLine(MsgPolling) ELSE sent
  /\ pc' = "loop"
  /\ UNCHANGED <<ret, wret, gpio_out, blink, fail_code, data, request,
                 tty, ch, xfer, bufv, timev, envv, blinkv, flashv, junev, loopv>>

(***************************************************************************)
(* pts_emulation, 20/11/2023: the polling loop.                            *)
(***************************************************************************)
\* uint32_t data = getchar_timeout_us(0); request = get_request();
\* data is never read, so its value is not kept; the locals of the previous
\* iteration are dead
loop ==
  /\ pc = "loop"
  /\ \E c \in {PICO_ERROR_TIMEOUT} \cup opBytes : data' = data
  /\ sent' = <<>>
  /\ request' = {} /\ tty' = 0 /\ ch' = 0
  /\ CallDebounce("classify")
  /\ UNCHANGED <<wret, gpio_out, blink, fail_code,
                 xfer, dbv, bufv, timev, envv, blinkv, flashv, junev, loopv>>

\* switch (request_type(request))
classify ==
  /\ pc = "classify"
  /\ DebounceUsed
  /\ request' = next
  /\ LET type == request_type(next) IN
       \/ /\ type = NONE
          /\ gpio_out' = gpio_put(gpio_out, ACK_PIN, 0)
          /\ pc' = "loop"
          /\ UNCHANGED <<fail_code, tty, ch, xfer>>
       \/ /\ type \in {READER, READ_TTY}
          /\ tty' = IF type = READ_TTY THEN 1 ELSE 0
          /\ pc' = "read_input"
          /\ xfer' = "started"
          /\ UNCHANGED <<fail_code, gpio_out, ch>>
       \/ /\ type \in {PUNCH, WRITE_TTY}
          /\ ch' = get_punch_data(next)
          /\ tty' = IF type = WRITE_TTY THEN 1 ELSE 0
          /\ pc' = "punch_output"
          /\ xfer' = "started"
          /\ UNCHANGED <<fail_code, gpio_out>>
       \/ /\ type = BAD
          /\ longjmp(REQUEST_FAIL)
          /\ UNCHANGED <<gpio_out, tty, ch, xfer>>
  /\ UNCHANGED <<ret, wret, blink, sent, data, bufv, timev, envv, blinkv, flashv, junev, loopv>>

(***************************************************************************)
(* read_input                                                              *)
(***************************************************************************)
\* io_on()
read_input ==
  /\ pc = "read_input"
  /\ gpio_out' = io_on(gpio_out)
  /\ pc' = "read_input_select"
  /\ UNCHANGED <<ret, wret, blink, fail_code, sent, data, request,
                 tty, ch, xfer, dbv, bufv, timev, envv, blinkv, flashv, junev, loopv>>

\* static char buffer[256]
BufferSize == 256

\* the values a read of buffer[i] can yield: the entry stored, and for
\* i = BufferSize, one past the last entry, whatever the object placed
\* there holds by then (the byte stored through buffer[256], or another)
LoadBuffer(buf, i) ==
  IF i < BufferSize THEN {buf[i]} ELSE {buf[i], NUL}

\* if ( tty ) putchar_raw('S') else if ( buf_ptr > buf_len ) putchar_raw('R')
\* else ch = buffer[buf_ptr++]
read_input_select ==
  /\ pc = "read_input_select"
  /\ IF tty # 0
       THEN /\ sent' = Append(sent, CharS)
            /\ pc' = "read_input_tty"
            /\ UNCHANGED <<ch, bufv>>
       ELSE IF buf_ptr > buf_len
         THEN /\ sent' = Append(sent, CharR)
              /\ pc' = "read_input_len"
              /\ UNCHANGED <<ch, bufv>>
         ELSE /\ ch' \in LoadBuffer(buffer, buf_ptr)
              /\ buf_ptr' = buf_ptr + 1
              /\ pc' = "read_input_send"
              /\ UNCHANGED <<sent, buffer, buf_len, fill_i, reply>>
  /\ UNCHANGED <<ret, wret, gpio_out, blink, fail_code, data, request,
                 tty, xfer, dbv, timev, envv, blinkv, flashv, junev, loopv>>

\* ch = getchar()
read_input_tty ==
  /\ pc = "read_input_tty"
  /\ ch' \in opBytes
  /\ pc' = "read_input_send"
  /\ UNCHANGED <<ret, wret, gpio_out, blink, fail_code, sent, data, request,
                 tty, xfer, dbv, bufv, timev, envv, blinkv, flashv, junev, loopv>>

\* buf_len = getchar() + 1; and i = 1 of the for statement
read_input_len ==
  /\ pc = "read_input_len"
  /\ \E n \in opCounts : buf_len' = n + 1
  /\ fill_i' = 1
  /\ reply' = <<>>
  /\ pc' = "read_input_fill"
  /\ UNCHANGED <<ret, wret, gpio_out, blink, fail_code, sent, data, request,
                 tty, ch, xfer, dbv, buffer, buf_ptr, timev, envv, blinkv, flashv, junev, loopv>>

\* buffer[i] = c
StoreBuffer(buf, i, c) ==
  [k \in 1..(IF i > Len(buf) THEN i ELSE Len(buf)) |-> IF k = i THEN c ELSE buf[k]]

\* for ( i = 1 ; i <= buf_len ; i++ ) buffer[i] = getchar();
\* ch = buffer[1]; buf_ptr = 2;
read_input_fill ==
  /\ pc = "read_input_fill"
  /\ IF fill_i <= buf_len
       THEN /\ \E c \in opBytes : /\ buffer' = StoreBuffer(buffer, fill_i, c)
                                  /\ reply' = Append(reply, c)
            /\ fill_i' = fill_i + 1
            /\ pc' = pc
            /\ UNCHANGED <<ch, buf_ptr>>
       ELSE /\ ch' = buffer[1]
            /\ buf_ptr' = 2
            /\ pc' = "read_input_send"
            /\ UNCHANGED <<buffer, fill_i, reply>>
  /\ UNCHANGED <<ret, wret, gpio_out, blink, fail_code, sent, data, request,
                 tty, xfer, dbv, buf_len, timev, envv, blinkv, flashv, junev, loopv>>

\* put_read_data(ch)
read_input_send ==
  /\ pc = "read_input_send"
  /\ gpio_out' = put_read_data(gpio_out, ch)
  /\ pc' = "read_input_ack"
  /\ UNCHANGED <<ret, wret, blink, fail_code, sent, data, request,
                 tty, ch, xfer, dbv, bufv, timev, envv, blinkv, flashv, junev, loopv>>

\* ack(): gpio_put(ACK_PIN, 1); sleep_us(ACK_TIME)
ack_high(from, to) ==
  /\ pc = from
  /\ gpio_out' = gpio_put(gpio_out, ACK_PIN, 1)
  /\ pc' = to
  /\ UNCHANGED <<ret, wret, blink, fail_code, sent, data, request,
                 tty, ch, xfer, dbv, bufv, timev, envv, blinkv, flashv, junev, loopv>>

\* ack(): gpio_put(ACK_PIN, 0); the caller then calls wait_for_no_request()
ack_low(from, to) ==
  /\ pc = from
  /\ gpio_out' = gpio_put(gpio_out, ACK_PIN, 0)
  /\ xfer' = "acked"
  /\ CallDebounce("wait_for_no_request")
  /\ wret' = to
  /\ UNCHANGED <<blink, fail_code, sent, data, request,
                 tty, ch, dbv, bufv, timev, envv, blinkv, flashv, junev, loopv>>

read_input_ack == ack_high("read_input_ack", "read_input_ack_low")
read_input_ack_low == ack_low("read_input_ack_low", "read_input_io_off")

\* io_off() and return to the loop
transfer_end(from) ==
  /\ pc = from
  /\ gpio_out' = io_off(gpio_out)
  /\ pc' = "loop"
  /\ UNCHANGED <<ret, wret, blink, fail_code, sent, data, request,
                 tty, ch, xfer, dbv, bufv, timev, envv, blinkv, flashv, junev, loopv>>

read_input_io_off == transfer_end("read_input_io_off")

(***************************************************************************)
(* punch_output                                                            *)
(***************************************************************************)
\* io_on()
punch_output ==
  /\ pc = "punch_output"
  /\ gpio_out' = io_on(gpio_out)
  /\ pc' = "punch_output_send"
  /\ UNCHANGED <<ret, wret, blink, fail_code, sent, data, request,
                 tty, ch, xfer, dbv, bufv, timev, envv, blinkv, flashv, junev, loopv>>

\* the tag of a write transfer
PunchTag(t) == IF t # 0 THEN CharQ ELSE CharP

\* putchar_raw(tty ? 'Q' : 'P'); putchar_raw(ch); stdio_flush();
punch_output_send ==
  /\ pc = "punch_output_send"
  /\ sent' = sent \o <<PunchTag(tty), ch>>
  /\ pc' = "punch_output_ack"
  /\ UNCHANGED <<ret, wret, gpio_out, blink, fail_code, data, request,
                 tty, ch, xfer, dbv, bufv, timev, envv, blinkv, flashv, junev, loopv>>

punch_output_ack == ack_high("punch_output_ack", "punch_output_ack_low")
punch_output_ack_low == ack_low("punch_output_ack_low", "punch_output_io_off")
punch_output_io_off == transfer_end("punch_output_io_off")

(***************************************************************************)
(* The 20/11/2023 revision as a whole.                                     *)
(***************************************************************************)
\* main: setup_gpios() clears every output, led_on(), status_on()
InitRun(lines, bytes, counts, levels, still) ==
  /\ pc = "setjmp"
  /\ ret = "none"
  /\ wret = "none"
  /\ gpio_out = gpio_put(gpio_put({}, LED_PIN, 1), STATUS_PIN, 1)
  /\ blink = NO_BLINK
  /\ fail_code = 0
  /\ sent = <<>>
  /\ data = PICO_ERROR_TIMEOUT
  /\ request = {}
  /\ tty = 0
  /\ ch = 0
  /\ count = 0 /\ last = {} /\ next = {} /\ repeat = FALSE
  /\ buffer = <<>> /\ buf_ptr = 257 /\ buf_len = 0 /\ fill_i = 0
  /\ reply = <<>>
  /\ now = 0
  /\ reader_free = 0 /\ punch_free = 0 /\ tty_free = 0
  /\ reader_time = 0 /\ punch_time = 0 /\ tty_time = 0
  /\ xfer = "restart"
  /\ last_gate = <<>>
  /\ gates = 0
  /\ gated = <<>>
  /\ punLines = lines
  /\ opBytes = bytes
  /\ opCounts = counts
  /\ logLevels = levels
  /\ steady = still
  /\ pc1 = "blinker" /\ led_state = 0 /\ blink_seen = NO_BLINK /\ slept = 0
  /\ monitoring = FALSE /\ flash_j = 0
  /\ polls = 0 /\ max_poll = 0 /\ cycles = 0 /\ logging_enabled = 0
  /\ holdPolls = {}
  /\ loop_i = 0 /\ loop_j = 0 /\ errors = 0

\* the operator's count bytes are bounded by MaxCount
InitEnv(lines, bytes, levels, still) ==
  InitRun(lines, bytes, 0..MaxCount, levels, still)

\* the input lines change at any time, also while being debounced; the host
\* drives 0xA5 on the punch lines and the operator sends the byte 0x41
Init == InitEnv({165}, {65}, {0, 1}, FALSE)

\* every byte: the host drives b on the punch lines, the operator sends
\* 255 - b, the logging switch is set one way and the lines hold still
\* while they are debounced
InitBytes ==
  \E b \in 0..255 : \E l \in 0..1 : InitEnv({b}, {255 - b}, {l}, TRUE)

Next ==
  \/ setjmp \/ handler_blink \/ handler_cancel \/ handler_io_off
  \/ handler_logging \/ handler_signals \/ halt
  \/ drain \/ restart_signal \/ starting_logging \/ set_slow
  \/ waiting_logging \/ wait_for_no_request \/ polling \/ polling_logging
  \/ gpio_debounce_enter \/ gpio_debounce_loop
  \/ loop \/ classify
  \/ read_input \/ read_input_select \/ read_input_tty \/ read_input_len
  \/ read_input_fill \/ read_input_send \/ read_input_ack
  \/ read_input_ack_low \/ read_input_io_off
  \/ punch_output \/ punch_output_send \/ punch_output_ack
  \/ punch_output_ack_low \/ punch_output_io_off

Spec == Init /\ [][Next]_vars
SpecBytes == InitBytes /\ [][Next]_vars

(***************************************************************************)
(* blinker, the status indicator thread on core 1 (20/11/2023), launched   *)
(* by main after status_on().  blink is read without synchronisation, once *)
(* by the test and once more as the argument of sleep_ms; a build may keep *)
(* the first value in a register or load it again.                         *)
(***************************************************************************)
\* a status_led that drives the IO indicator
status_led_io(out, onoff) == gpio_put(out, IO_PIN, onoff)

\* status_led(onoff)
status_led(out, onoff) == gpio_put(out, STATUS_PIN, onoff)

\* a blinker that reads blink on its first iteration only and afterwards
\* takes the time it slept last for the rate
blinker_led_once ==
  /\ pc1 = "blinker"
  /\ blink_seen' = IF slept = 0 THEN blink ELSE slept
  /\ led_state' = IF blink_seen' = NO_BLINK THEN 0 ELSE (led_state + 1) % 2
  /\ gpio_out' = status_led(gpio_out, led_state')
  /\ pc1' = "blinker_sleep"
  /\ UNCHANGED <<pc, ret, wret, blink, fail_code, sent, data, request,
                 tty, ch, xfer, dbv, bufv, timev, envv, slept, flashv, junev, loopv>>

\* if ( blink == NO_BLINK ) { led_state = 0; status_led(0); }
\* else { led_state = (led_state+1) & 1; status_led(led_state); }
blinker_led ==
  /\ pc1 = "blinker"
  /\ blink_seen' = blink
  /\ led_state' = IF blink = NO_BLINK THEN 0 ELSE (led_state + 1) % 2
  /\ gpio_out' = status_led(gpio_out, led_state')
  /\ pc1' = "blinker_sleep"
  /\ UNCHANGED <<pc, ret, wret, blink, fail_code, sent, data, request,
                 tty, ch, xfer, dbv, bufv, timev, envv, slept, flashv, junev, loopv>>

\* a blinker that sleeps for blink milliseconds in either branch
blinker_sleep_blink ==
  /\ pc1 = "blinker_sleep"
  /\ \E r \in {blink_seen, blink} : slept' = r
  /\ blink_seen' = NO_BLINK
  /\ pc1' = "blinker"
  /\ UNCHANGED <<pc, ret, wret, gpio_out, blink, fail_code, sent, data, request,
                 tty, ch, xfer, dbv, bufv, timev, envv, led_state, flashv, junev, loopv>>

\* sleep_ms(SLOW_BLINK) in the first branch, sleep_ms(blink) in the second
blinker_sleep ==
  /\ pc1 = "blinker_sleep"
  /\ \E r \in (IF blink_seen = NO_BLINK THEN {SLOW_BLINK} ELSE {blink_seen, blink}) :
       slept' = r
  /\ blink_seen' = NO_BLINK
  /\ pc1' = "blinker"
  /\ UNCHANGED <<pc, ret, wret, gpio_out, blink, fail_code, sent, data, request,
                 tty, ch, xfer, dbv, bufv, timev, envv, led_state, flashv, junev, loopv>>

\* both cores running; the lines hold still while being debounced
InitStatus == InitEnv({165}, {65}, {0, 1}, TRUE)
NextStatus == Next \/ blinker_led \/ blinker_sleep
SpecStatus == InitStatus /\ [][NextStatus]_vars

(***************************************************************************)
(* The flash-code test program (pictopts_test.c, TEST == COPY_TEST2).      *)
(* main launches pts_emulation on core 1 and runs monitor itself.  The     *)
(* test routine is kept as the ACK pulses it makes and the longjmp calls   *)
(* it contains; logging() is TRUE in this build.  sent holds the line      *)
(* written last.                                                           *)
(***************************************************************************)
NOPOWER_PIN == 18
NOPOWER_BIT == Shl(WordOf(1), NOPOWER_PIN)
ACK_BIT == Shl(WordOf(1), ACK_PIN)
TEST_FAIL == 5
MsgNoPowerHigh == 21
MsgHaltedTest == 22
MsgTime == 23

REQUEST_FAIL_T == 2
TIMEOUT_FAIL == 3
LOGGING_FAIL_T == 4
EXIT_FAIL == 6

\* the codes copy_test2 passes to longjmp: REQUEST_FAIL (2) and TEST_FAIL
TestCodes == {REQUEST_FAIL_T, TEST_FAIL}

\* const char* error_messages[]: the number each message starts with and
\* the fault its text speaks of
ErrorTable ==
  << [number |-> 0, about |-> "undefined"],
     [number |-> 1, about |-> "undefined"],
     [number |-> 2, about |-> "wrong request type seen"],
     [number |-> 3, about |-> "wait for request timed out"],
     [number |-> 4, about |-> "test failed"],
     [number |-> 5, about |-> "program exited"] >>

\* error_messages[i], i from 0; past the table the pointer read is whatever
\* follows it in memory, here some message of the table or none
error_messages_t(i) ==
  IF i + 1 \in DOMAIN ErrorTable
    THEN {ErrorTable[i + 1]}
    ELSE {ErrorTable[k] : k \in DOMAIN ErrorTable}
           \cup {[number |-> i, about |-> "none"]}

led_on(out) == gpio_put(out, LED_PIN, 1)

led_off(out) == gpio_put(out, LED_PIN, 0)

\* if ( fail_code = setjmp(jbuf) ): the first return, 0
test_setjmp ==
  /\ pc = "t_setjmp"
  /\ fail_code' = 0
  /\ pc' = "t_run"
  /\ UNCHANGED <<ret, wret, gpio_out, blink, sent, data, request,
                 tty, ch, xfer, dbv, bufv, timev, envv, blinkv, flashv, junev, loopv>>

\* copy_test2: an ACK pulse edge of a transfer, or a longjmp
test_run ==
  /\ pc = "t_run"
  /\ \/ /\ \E a \in 0..1 : gpio_out' = gpio_put(gpio_out, ACK_PIN, a)
        /\ UNCHANGED <<pc, fail_code>>
     \/ /\ \E c \in TestCodes : fail_code' = c
        /\ pc' = "t_handler"
        /\ gpio_out' = gpio_out
  /\ UNCHANGED <<ret, wret, blink, sent, data, request,
                 tty, ch, xfer, dbv, bufv, timev, envv, blinkv, flashv, junev, loopv>>

\* monitoring = FALSE
test_handler ==
  /\ pc = "t_handler"
  /\ monitoring' = FALSE
  /\ pc' = "t_power_off"
  /\ UNCHANGED <<ret, wret, gpio_out, blink, fail_code, sent, data, request,
                 tty, ch, xfer, dbv, bufv, timev, envv, blinkv, flash_j, junev, loopv>>

\* set_power_off()
set_power_off ==
  /\ pc = "t_power_off"
  /\ sent' = <<Text(MsgNoPowerHigh)>>
  /\ gpio_out' = gpio_put_masked(gpio_out, BitOr(NOPOWER_BIT, ACK_BIT), NOPOWER_BIT)
  /\ pc' = "t_cancel"
  /\ UNCHANGED <<ret, wret, blink, fail_code, data, request,
                 tty, ch, xfer, dbv, bufv, timev, envv, blinkv, flashv, junev, loopv>>

\* gpio_put(ACK_PIN, 0); if ( logging() ) printf("PicoPTS halted after error ...")
test_cancel ==
  /\ pc = "t_cancel"
  /\ gpio_out' = gpio_put(gpio_out, ACK_PIN, 0)
  /\ \E m \in error_messages_t(fail_code) : sent' = <<Text(MsgHaltedTest), m>>
  /\ pc' = "t_pause"
  /\ UNCHANGED <<ret, wret, blink, fail_code, data, request,
                 tty, ch, xfer, dbv, bufv, timev, envv, blinkv, flashv, junev, loopv>>

\* sleep_ms(1000); for ( j = 1 ; ...
flash_pause ==
  /\ pc = "t_pause"
  /\ flash_j' = 1
  /\ pc' = "t_for"
  /\ UNCHANGED <<ret, wret, gpio_out, blink, fail_code, sent, data, request,
                 tty, ch, xfer, dbv, bufv, timev, envv, blinkv, monitoring, junev, loopv>>

\* ... ; j <= fail_code ; ...
flash_for ==
  /\ pc = "t_for"
  /\ pc' = IF flash_j <= fail_code THEN "t_led_on" ELSE "t_pause"
  /\ UNCHANGED <<ret, wret, gpio_out, blink, fail_code, sent, data, request,
                 tty, ch, xfer, dbv, bufv, timev, envv, blinkv, flashv, junev, loopv>>

\* led_on(); sleep_ms(250)
flash_on ==
  /\ pc = "t_led_on"
  /\ gpio_out' = led_on(gpio_out)
  /\ pc' = "t_led_off"
  /\ UNCHANGED <<ret, wret, blink, fail_code, sent, data, request,
                 tty, ch, xfer, dbv, bufv, timev, envv, blinkv, flashv, junev, loopv>>

\* led_off(); sleep_ms(100); j++
flash_off ==
  /\ pc = "t_led_off"
  /\ gpio_out' = led_off(gpio_out)
  /\ flash_j' = flash_j + 1
  /\ pc' = "t_for"
  /\ UNCHANGED <<ret, wret, blink, fail_code, sent, data, request,
                 tty, ch, xfer, dbv, bufv, timev, envv, blinkv, monitoring, junev, loopv>>

\* monitor: monitoring = TRUE; sleep_ms(15000)
monitor_start ==
  /\ pc1 = "m_start"
  /\ monitoring' = TRUE
  /\ pc1' = "m_check"
  /\ UNCHANGED <<pc, ret, wret, gpio_out, blink, fail_code, sent, data, request,
                 tty, ch, xfer, dbv, bufv, timev, envv, led_state, blink_seen,
                 slept, flash_j, junev, loopv>>

\* if ( !monitoring ) while ( TRUE ) sleep_ms(UINT32_MAX);
monitor_check ==
  /\ pc1 = "m_check"
  /\ pc1' = IF monitoring THEN "m_led_on" ELSE "m_parked"
  /\ UNCHANGED <<pc, ret, wret, gpio_out, blink, fail_code, sent, data, request,
                 tty, ch, xfer, dbv, bufv, timev, envv, led_state, blink_seen,
                 slept, flashv, junev, loopv>>

\* led_on(); sleep_ms(TICK_SECS * 500)
monitor_led_on ==
  /\ pc1 = "m_led_on"
  /\ gpio_out' = led_on(gpio_out)
  /\ pc1' = "m_led_off"
  /\ UNCHANGED <<pc, ret, wret, blink, fail_code, sent, data, request,
                 tty, ch, xfer, dbv, bufv, timev, envv, led_state, blink_seen,
                 slept, flashv, junev, loopv>>

\* led_off(); sleep_ms(TICK_SECS * 500)
monitor_led_off ==
  /\ pc1 = "m_led_off"
  /\ gpio_out' = led_off(gpio_out)
  /\ pc1' = "m_log"
  /\ UNCHANGED <<pc, ret, wret, blink, fail_code, sent, data, request,
                 tty, ch, xfer, dbv, bufv, timev, envv, led_state, blink_seen,
                 slept, flashv, junev, loopv>>

\* if ( monitoring && logging() ) printf("Time ...")
monitor_log ==
  /\ pc1 = "m_log"
  /\ sent' = IF monitoring THEN <<Text(MsgTime)>> ELSE sent
  /\ pc1' = "m_check"
  /\ UNCHANGED <<pc, ret, wret, gpio_out, blink, fail_code, data, request,
                 tty, ch, xfer, dbv, bufv, timev, envv, led_state, blink_seen,
                 slept, flashv, junev, loopv>>

\* main has made its four blinks and called multicore_launch_core1
InitFlash ==
  /\ pc = "t_setjmp"
  /\ ret = "none"
  /\ wret = "none"
  /\ gpio_out = {}
  /\ blink = NO_BLINK
  /\ fail_code = 0
  /\ sent = <<>>
  /\ data = PICO_ERROR_TIMEOUT
  /\ request = {}
  /\ tty = 0
  /\ ch = 0
  /\ count = 0 /\ last = {} /\ next = {} /\ repeat = FALSE
  /\ buffer = <<>> /\ buf_ptr = 257 /\ buf_len = 0 /\ fill_i = 0
  /\ reply = <<>>
  /\ now = 0
  /\ reader_free = 0 /\ punch_free = 0 /\ tty_free = 0
  /\ reader_time = 0 /\ punch_time = 0 /\ tty_time = 0
  /\ xfer = "idle"
  /\ last_gate = <<>>
  /\ gates = 0
  /\ gated = <<>>
  /\ punLines = {165}
  /\ opBytes = {65}
  /\ opCounts = 0..MaxCount
  /\ logLevels = {1}
  /\ steady = TRUE
  /\ pc1 = "m_start" /\ led_state = 0 /\ blink_seen = NO_BLINK /\ slept = 0
  /\ monitoring = FALSE /\ flash_j = 0
  /\ polls = 0 /\ max_poll = 0 /\ cycles = 0 /\ logging_enabled = 0
  /\ holdPolls = {}
  /\ loop_i = 0 /\ loop_j = 0 /\ errors = 0

NextFlash ==
  \/ test_setjmp \/ test_run \/ test_handler \/ set_power_off \/ test_cancel
  \/ flash_pause \/ flash_for \/ flash_on \/ flash_off
  \/ monitor_start \/ monitor_check \/ monitor_led_on \/ monitor_led_off
  \/ monitor_log

SpecFlash == InitFlash /\ [][NextFlash]_vars

(***************************************************************************)
(* The 31/10/2023 revision.  main calls loopback_test(), which does not    *)
(* return, before pts_emulation(); the revision is modelled from the call  *)
(* of pts_emulation().  The logging switch is read directly (gpio_get) and *)
(* requests are single raw samples (poll_for_request).  The clock now      *)
(* moves where the program waits: sleep_until, a getchar_timeout_us that   *)
(* times out, and the ACK pulse.                                           *)
(***************************************************************************)
Devices == {"reader", "punch", "tty"}

\* tests of a request that accept either request line
read_request_or_punch(req) == BitAnd(req, BitOr(RDRREQ_BIT, PUNREQ_BIT))
punch_request_or_read(req) == BitAnd(req, BitOr(RDRREQ_BIT, PUNREQ_BIT))

\* read_request, punch_request, tty_request
read_request(req) == BitAnd(req, RDRREQ_BIT)
punch_request(req) == BitAnd(req, PUNREQ_BIT)
tty_request(req) == BitAnd(req, TTYSEL_BIT)

\* pack_reader_data
pack_reader_data(out, c) ==
  gpio_put_masked(out, RDR_PINS_MASK, Shl(WordOf(c), RDR_1_PIN))

\* unpack_punch_data has no return statement: its caller reads an
\* indeterminate value, here the value of the expression it evaluates or
\* the low byte of its argument, whichever the register holds
unpack_punch_data(req) ==
  {ValueOf(Shr(BitAnd(req, PUN_PINS_MASK), PUN_1_PIN)),
   ValueOf(BitAnd(req, WordOf(255)))}

\* sleep_until(t): the time at which it returns
sleep_until(t) == IF now >= t THEN now ELSE t

\* make_timeout_time_us(us)
make_timeout_time_us(us) == now + us

\* longjmp(jbuf, code)
oct_longjmp(code) == fail_code' = code /\ pc' = "o_handler"

\* if ( fail_code = setjmp(jbuf) ): the first return, 0
oct_setjmp ==
  /\ pc = "o_setjmp"
  /\ fail_code' = 0
  /\ pc' = "o_start"
  /\ UNCHANGED <<ret, wret, gpio_out, blink, sent, data, request,
                 tty, ch, xfer, dbv, bufv, timev, envv, blinkv, flashv, junev, loopv>>

\* blink = FAST_BLINK
oct_handler_blink ==
  /\ pc = "o_handler"
  /\ blink' = FAST_BLINK
  /\ request' = {}
  /\ pc' = "o_handler_cancel"
  /\ UNCHANGED <<ret, wret, gpio_out, fail_code, sent, data, tty, ch, xfer,
                 dbv, bufv, timev, envv, blinkv, flashv, junev, loopv>>

\* cancel_ack()
oct_handler_cancel ==
  /\ pc = "o_handler_cancel"
  /\ gpio_out' = cancel_ack(gpio_out)
  /\ pc' = "o_handler_io_off"
  /\ UNCHANGED <<ret, wret, blink, fail_code, sent, data, request,
                 tty, ch, xfer, dbv, bufv, timev, envv, blinkv, flashv, junev, loopv>>

\* io_off()
oct_handler_io_off ==
  /\ pc = "o_handler_io_off"
  /\ gpio_out' = io_off(gpio_out)
  /\ pc' = "o_handler_logging"
  /\ UNCHANGED <<ret, wret, blink, fail_code, sent, data, request,
                 tty, ch, xfer, dbv, bufv, timev, envv, blinkv, flashv, junev, loopv>>

\* if ( logging() ) { printf(...); while ( TRUE ) sleep_ms(INT32_MAX); }
\* and otherwise control leaves the if statement and continues
oct_handler_logging ==
  /\ pc = "o_handler_logging"
  /\ \E l \in logLevels :
       IF l = 1
         THEN /\ sent' = sent \o HaltedAfterError(fail_code)
              /\ pc' = "o_halted"
         ELSE /\ sent' = sent
              /\ pc' = "o_start"
  /\ UNCHANGED <<ret, wret, gpio_out, blink, fail_code, data, request,
                 tty, ch, xfer, dbv, bufv, timev, envv, blinkv, flashv, junev, loopv>>

\* blink = SLOW_BLINK; reader_free = punch_free = tty_free = get_absolute_time()
oct_start ==
  /\ pc = "o_start"
  /\ blink' = SLOW_BLINK
  /\ reader_free' = now /\ punch_free' = now /\ tty_free' = now
  /\ pc' = "o_reset_terminal"
  /\ UNCHANGED <<ret, wret, gpio_out, fail_code, sent, data, request,
                 tty, ch, xfer, dbv, bufv, now,
                 reader_time, punch_time, tty_time, last_gate, gates, gated, envv, blinkv, flashv, junev, loopv>>

\* printf("\x00\n"): the format string is empty (it ends at its first
\* character, NUL), so nothing is written;
\* if ( logging() ) printf("\n\n\nLPicoPTS - Starting emulator\n")
oct_reset_terminal ==
  /\ pc = "o_reset_terminal"
  /\ \E l \in logLevels :
       sent' = IF l = 1 THEN sent \o <<NL, NL, NL>> \o LogLine(MsgStarting)
                        ELSE sent
  /\ pc' = "o_cmd"
  /\ UNCHANGED <<ret, wret, gpio_out, blink, fail_code, data, request,
                 tty, ch, xfer, dbv, bufv, timev, envv, blinkv, flashv, junev, loopv>>

\* a case 'D' that leaves the teletype period as it is
CommandD_torn(l) ==
  /\ IF reader_time = FAST_READER
       THEN /\ sent' = IF l = 1 THEN LogLine(MsgSlowDevices) ELSE <<>>
            /\ reader_time' = SLOW_READER
            /\ punch_time' = SLOW_PUNCH
       ELSE /\ sent' = IF l = 1 THEN LogLine(MsgFastDevices) ELSE <<>>
            /\ reader_time' = FAST_READER
            /\ punch_time' = FAST_PUNCH
  /\ UNCHANGED <<tty_time, reader_free, punch_free, tty_free>>

\* a case 'D' that also restarts the three deadlines
CommandD_restart(l) ==
  /\ IF reader_time = FAST_READER
       THEN /\ sent' = IF l = 1 THEN LogLine(MsgSlowDevices) ELSE <<>>
            /\ reader_time' = SLOW_READER
            /\ tty_time' = SLOW_TTY
            /\ punch_time' = SLOW_PUNCH
       ELSE /\ sent' = IF l = 1 THEN LogLine(MsgFastDevices) ELSE <<>>
            /\ reader_time' = FAST_READER
            /\ tty_time' = FAST_TTY
            /\ punch_time' = FAST_PUNCH
  /\ reader_free' = now /\ punch_free' = now /\ tty_free' = now

\* case 'D': the three periods are switched, with a log line if logging()
CommandD(l) ==
  /\ IF reader_time = FAST_READER
       THEN /\ sent' = IF l = 1 THEN LogLine(MsgSlowDevices) ELSE <<>>
            /\ reader_time' = SLOW_READER
            /\ tty_time' = SLOW_TTY
            /\ punch_time' = SLOW_PUNCH
       ELSE /\ sent' = IF l = 1 THEN LogLine(MsgFastDevices) ELSE <<>>
            /\ reader_time' = FAST_READER
            /\ tty_time' = FAST_TTY
            /\ punch_time' = FAST_PUNCH
  /\ UNCHANGED <<reader_free, punch_free, tty_free>>

\* switch ( data = getchar_timeout_us(0) ); the locals of the previous
\* iteration are dead
oct_command ==
  /\ pc = "o_cmd"
  /\ request' = {} /\ tty' = 0 /\ ch' = 0 /\ xfer' = "idle"
  /\ \E c \in {PICO_ERROR_TIMEOUT, NUL, DEL, CharD} \cup opBytes :
     \E l \in logLevels :
       /\ data' = c
       /\ \/ /\ c = PICO_ERROR_TIMEOUT
             /\ sent' = <<>>
             /\ pc' = "o_poll"
             /\ UNCHANGED <<fail_code, reader_free, punch_free, tty_free,
                            reader_time, punch_time, tty_time>>
          \/ /\ c \in {NUL, DEL}
             /\ sent' = IF l = 1
                          THEN LogLine(IF c = NUL THEN MsgNulIgnored ELSE MsgDelIgnored)
                          ELSE <<>>
             /\ pc' = "o_poll"
             /\ UNCHANGED <<fail_code, reader_free, punch_free, tty_free,
                            reader_time, punch_time, tty_time>>
          \/ /\ c = CharD
             /\ CommandD(l)
             /\ pc' = "o_poll"
             /\ UNCHANGED fail_code
          \/ /\ c \notin {PICO_ERROR_TIMEOUT, NUL, DEL, CharD}
             /\ IF l = 1
                  THEN /\ sent' = LogLine(MsgUnrecognized)
                       /\ pc' = "o_poll"
                       /\ UNCHANGED fail_code
                  ELSE /\ sent' = <<>>
                       /\ oct_longjmp(COMMAND_FAIL)
             /\ UNCHANGED <<reader_free, punch_free, tty_free,
                            reader_time, punch_time, tty_time>>
  /\ UNCHANGED <<ret, wret, gpio_out, blink, dbv, bufv,
                 now, last_gate, gates, gated, envv, blinkv, flashv, junev, loopv>>

\* request = poll_for_request(); if ( read_request(request) ) put_pts_ch(...)
\* else get_pts_ch(unpack_punch_data(request), ...)
oct_poll ==
  /\ pc = "o_poll"
  /\ gates < MaxGates
  /\ data' = PICO_ERROR_TIMEOUT
  /\ \E w \in InputWords :
       LET req == gpio_get_all(w) IN
         /\ request' = req
         /\ tty' = IF tty_request(req) # {} THEN 1 ELSE 0
         /\ IF read_request(req) # {}
              THEN /\ pc' = "o_put"
                   /\ ch' = ch
              ELSE /\ pc' = "o_get"
                   /\ ch' \in unpack_punch_data(req)
  /\ UNCHANGED <<ret, wret, gpio_out, blink, fail_code, sent,
                 xfer, dbv, bufv, timev, envv, blinkv, flashv, junev, loopv>>

\* io_on() at the head of put_pts_ch and get_pts_ch; the caller's request
\* word is dead once the arguments are passed, and the record of the serial
\* output starts afresh for the transfer
oct_io_on(from, to) ==
  /\ pc = from
  /\ gpio_out' = io_on(gpio_out)
  /\ request' = {}
  /\ sent' = <<>>
  /\ gated' = <<>>
  /\ xfer' = "started"
  /\ pc' = to
  /\ UNCHANGED <<ret, wret, blink, fail_code, data,
                 tty, ch, dbv, bufv, now, reader_free, punch_free,
                 tty_free, reader_time, punch_time, tty_time, last_gate,
                 gates, envv, blinkv, flashv, junev, loopv>>

\* the device a transfer is timed on
Device(dir, t) == IF t # 0 THEN "tty" ELSE dir

\* sleep_until(tty_free) or sleep_until(reader_free / punch_free)
gate_wait(from, to, dir) ==
  /\ pc = from
  /\ IF tty # 0
       THEN /\ now' = sleep_until(tty_free)
            /\ gated' = Append(gated, <<"wait", "tty">>)
       ELSE IF dir = "reader"
         THEN /\ now' = sleep_until(reader_free)
              /\ gated' = Append(gated, <<"wait", "reader">>)
         ELSE /\ now' = sleep_until(punch_free)
              /\ gated' = Append(gated, <<"wait", "punch">>)
  /\ pc' = to
  /\ UNCHANGED <<ret, wret, gpio_out, blink, fail_code, sent, data, request,
                 tty, ch, xfer, dbv, bufv, reader_free, punch_free, tty_free,
                 reader_time, punch_time, tty_time, last_gate, gates, envv, blinkv, flashv, junev, loopv>>

\* a gate that always sets the deadline of the reader or the punch, also
\* for a teletype transfer
gate_set_no_tty(from, to, dir) ==
  /\ pc = from
  /\ IF dir = "reader"
       THEN /\ reader_free' = make_timeout_time_us(reader_time)
            /\ last_gate' = [last_gate EXCEPT !["reader"] = <<now, reader_time>>]
            /\ gated' = Append(gated, <<"set", "reader">>)
            /\ UNCHANGED <<tty_free, punch_free>>
       ELSE /\ punch_free' = make_timeout_time_us(punch_time)
            /\ last_gate' = [last_gate EXCEPT !["punch"] = <<now, punch_time>>]
            /\ gated' = Append(gated, <<"set", "punch">>)
            /\ UNCHANGED <<tty_free, reader_free>>
  /\ gates' = gates + 1
  /\ pc' = to
  /\ UNCHANGED <<ret, wret, gpio_out, blink, fail_code, sent, data, request,
                 tty, ch, xfer, dbv, bufv, now,
                 reader_time, punch_time, tty_time, envv, blinkv, flashv, junev, loopv>>

\* tty_free = make_timeout_time_us(tty_time), or the same for the reader or
\* the punch
gate_set(from, to, dir) ==
  /\ pc = from
  /\ IF tty # 0
       THEN /\ tty_free' = make_timeout_time_us(tty_time)
            /\ last_gate' = [last_gate EXCEPT !["tty"] = <<now, tty_time>>]
            /\ gated' = Append(gated, <<"set", "tty">>)
            /\ UNCHANGED <<reader_free, punch_free>>
       ELSE IF dir = "reader"
         THEN /\ reader_free' = make_timeout_time_us(reader_time)
              /\ last_gate' = [last_gate EXCEPT !["reader"] = <<now, reader_time>>]
              /\ gated' = Append(gated, <<"set", "reader">>)
              /\ UNCHANGED <<tty_free, punch_free>>
         ELSE /\ punch_free' = make_timeout_time_us(punch_time)
              /\ last_gate' = [last_gate EXCEPT !["punch"] = <<now, punch_time>>]
              /\ gated' = Append(gated, <<"set", "punch">>)
              /\ UNCHANGED <<tty_free, reader_free>>
  /\ gates' = gates + 1
  /\ pc' = to
  /\ UNCHANGED <<ret, wret, gpio_out, blink, fail_code, sent, data, request,
                 tty, ch, xfer, dbv, bufv, now,
                 reader_time, punch_time, tty_time, envv, blinkv, flashv, junev, loopv>>

\* ack(): gpio_put(ACK_PIN, 1); the sample that was tested is dead
oct_ack_high(from, to) ==
  /\ pc = from
  /\ gpio_out' = gpio_put(gpio_out, ACK_PIN, 1)
  /\ request' = {}
  /\ pc' = to
  /\ UNCHANGED <<ret, wret, blink, fail_code, sent, data, tty, ch, xfer,
                 dbv, bufv, timev, envv, blinkv, flashv, junev, loopv>>

\* ack(): sleep_us(ACK_TIME); gpio_put(ACK_PIN, 0)
oct_ack_low(from, to) ==
  /\ pc = from
  /\ now' = now + ACK_TIME
  /\ gpio_out' = gpio_put(gpio_out, ACK_PIN, 0)
  /\ xfer' = IF xfer = "started" THEN "acked" ELSE "twice"
  /\ pc' = to
  /\ UNCHANGED <<ret, wret, blink, fail_code, sent, data, request,
                 tty, ch, dbv, bufv, reader_free, punch_free, tty_free,
                 reader_time, punch_time, tty_time, last_gate, gates, gated, envv, blinkv, flashv, junev, loopv>>

\* io_off() and return to the loop
oct_io_off(from) ==
  /\ pc = from
  /\ gpio_out' = io_off(gpio_out)
  /\ pc' = "o_cmd"
  /\ UNCHANGED <<ret, wret, blink, fail_code, sent, data, request,
                 tty, ch, xfer, dbv, bufv, timev, envv, blinkv, flashv, junev, loopv>>

(***************************************************************************)
(* put_pts_ch                                                              *)
(***************************************************************************)
put_pts_ch == oct_io_on("o_put", "o_put_gate")
put_pts_ch_gate == gate_wait("o_put_gate", "o_put_set", "reader")
put_pts_ch_set == gate_set("o_put_set", "o_put_check", "reader")

\* if ( read_request(poll_for_request()) ) putchar_raw(tty ? 'S' : 'R');
\* else longjmp(jbuf, READ_PROTOCOL_FAIL);
put_pts_ch_check ==
  /\ pc = "o_put_check"
  /\ \E w \in InputWords :
       /\ request' = gpio_get_all(w)
       /\ IF read_request(gpio_get_all(w)) # {}
            THEN /\ sent' = Append(sent, IF tty # 0 THEN CharS ELSE CharR)
                 /\ pc' = "o_put_getchar"
                 /\ UNCHANGED fail_code
            ELSE /\ oct_longjmp(READ_PROTOCOL_FAIL)
                 /\ UNCHANGED sent
  /\ UNCHANGED <<ret, wret, gpio_out, blink, data, tty, ch, xfer,
                 dbv, bufv, timev, envv, blinkv, flashv, junev, loopv>>

\* while ( (ch = getchar_timeout_us(1000)) == PICO_ERROR_TIMEOUT )
\*   if ( read_request(poll_for_request()) ) continue;
\*   else longjmp(jbuf, READ_PROTOCOL_FAIL);
put_pts_ch_getchar ==
  /\ pc = "o_put_getchar"
  /\ \/ /\ now + GETCHAR_TIMEOUT <= MaxTime
        /\ now' = now + GETCHAR_TIMEOUT
        /\ \E w \in InputWords :
             /\ request' = gpio_get_all(w)
             /\ IF read_request(gpio_get_all(w)) # {}
                  THEN pc' = pc /\ UNCHANGED fail_code
                  ELSE oct_longjmp(READ_PROTOCOL_FAIL)
        /\ UNCHANGED ch
     \/ /\ ch' \in opBytes
        /\ request' = {}
        /\ pc' = "o_put_pack"
        /\ UNCHANGED <<now, fail_code>>
  /\ UNCHANGED <<ret, wret, gpio_out, blink, sent, data, tty, xfer,
                 dbv, bufv, reader_free, punch_free, tty_free,
                 reader_time, punch_time, tty_time, last_gate, gates, gated, envv, blinkv, flashv, junev, loopv>>

\* pack_reader_data(ch)
put_pts_ch_pack ==
  /\ pc = "o_put_pack"
  /\ gpio_out' = pack_reader_data(gpio_out, ch)
  /\ pc' = "o_put_ack"
  /\ UNCHANGED <<ret, wret, blink, fail_code, sent, data, request,
                 tty, ch, xfer, dbv, bufv, timev, envv, blinkv, flashv, junev, loopv>>

put_pts_ch_ack == oct_ack_high("o_put_ack", "o_put_ack_low")
put_pts_ch_ack_low == oct_ack_low("o_put_ack_low", "o_put_io_off")
put_pts_ch_io_off == oct_io_off("o_put_io_off")

(***************************************************************************)
(* get_pts_ch                                                              *)
(***************************************************************************)
get_pts_ch == oct_io_on("o_get", "o_get_gate")
get_pts_ch_gate == gate_wait("o_get_gate", "o_get_set", "punch")
get_pts_ch_set == gate_set("o_get_set", "o_get_send", "punch")

\* putchar_raw(tty ? 'Q' : 'P'); putchar_raw(ch);
get_pts_ch_send ==
  /\ pc = "o_get_send"
  /\ sent' = sent \o <<PunchTag(tty), ch>>
  /\ pc' = "o_get_check"
  /\ UNCHANGED <<ret, wret, gpio_out, blink, fail_code, data, request,
                 tty, ch, xfer, dbv, bufv, timev, envv, blinkv, flashv, junev, loopv>>

\* if ( punch_request(poll_for_request()) ) { ack(); ... }
\* else longjmp(jbuf, PUNCH_PROTOCOL_FAIL);
get_pts_ch_check ==
  /\ pc = "o_get_check"
  /\ \E w \in InputWords :
       /\ request' = gpio_get_all(w)
       /\ IF punch_request(gpio_get_all(w)) # {}
            THEN pc' = "o_get_ack" /\ UNCHANGED fail_code
            ELSE oct_longjmp(PUNCH_PROTOCOL_FAIL)
  /\ UNCHANGED <<ret, wret, gpio_out, blink, sent, data, tty, ch, xfer,
                 dbv, bufv, timev, envv, blinkv, flashv, junev, loopv>>

get_pts_ch_ack == oct_ack_high("o_get_ack", "o_get_ack_low")
get_pts_ch_ack_low == oct_ack_low("o_get_ack_low", "o_get_io_off")
get_pts_ch_io_off == oct_io_off("o_get_io_off")

(***************************************************************************)
(* The 31/10/2023 revision as a whole.                                     *)
(***************************************************************************)
\* setup_gpios() clears every output, led_on(); the periods are the slow
\* ones and the deadlines are zero-initialised
InitOct ==
  /\ pc = "o_setjmp"
  /\ ret = "none"
  /\ wret = "none"
  /\ gpio_out = gpio_put({}, LED_PIN, 1)
  /\ blink = NO_BLINK
  /\ fail_code = 0
  /\ sent = <<>>
  /\ data = PICO_ERROR_TIMEOUT
  /\ request = {}
  /\ tty = 0
  /\ ch = 0
  /\ count = 0 /\ last = {} /\ next = {} /\ repeat = FALSE
  /\ buffer = <<>> /\ buf_ptr = 257 /\ buf_len = 0 /\ fill_i = 0
  /\ reply = <<>>
  /\ now = 0
  /\ reader_free = 0 /\ punch_free = 0 /\ tty_free = 0
  /\ reader_time = SLOW_READER /\ punch_time = SLOW_PUNCH /\ tty_time = SLOW_TTY
  /\ xfer = "idle"
  /\ last_gate = [d \in Devices |-> <<0, 0>>]
  /\ gates = 0
  /\ gated = <<>>
  /\ punLines = {165}
  /\ opBytes = {65}
  /\ opCounts = 0..MaxCount
  /\ logLevels = {0, 1}
  /\ steady = FALSE
  /\ pc1 = "blinker" /\ led_state = 0 /\ blink_seen = NO_BLINK /\ slept = 0
  /\ monitoring = FALSE /\ flash_j = 0
  /\ polls = 0 /\ max_poll = 0 /\ cycles = 0 /\ logging_enabled = 0
  /\ holdPolls = {}
  /\ loop_i = 0 /\ loop_j = 0 /\ errors = 0

NextOct ==
  \/ oct_setjmp \/ oct_handler_blink \/ oct_handler_cancel
  \/ oct_handler_io_off \/ oct_handler_logging
  \/ oct_start \/ oct_reset_terminal \/ oct_command \/ oct_poll
  \/ put_pts_ch \/ put_pts_ch_gate \/ put_pts_ch_set \/ put_pts_ch_check
  \/ put_pts_ch_getchar \/ put_pts_ch_pack \/ put_pts_ch_ack
  \/ put_pts_ch_ack_low \/ put_pts_ch_io_off
  \/ get_pts_ch \/ get_pts_ch_gate \/ get_pts_ch_set \/ get_pts_ch_send
  \/ get_pts_ch_check \/ get_pts_ch_ack \/ get_pts_ch_ack_low
  \/ get_pts_ch_io_off

SpecOct == InitOct /\ [][NextOct]_vars

(***************************************************************************)
(* Properties.  Observations shared by several of them first.              *)
(***************************************************************************)
AckHigh == ACK_PIN \in gpio_out

\* the byte on the eight reader (output) data lines
ReaderLines == ValueOf(Shr(BitAnd(gpio_out, RDR_PINS_MASK), RDR_1_PIN))

\* the byte on the eight punch (input) data lines of a sample
PunchLines(req) == ValueOf(Shr(BitAnd(req, PUN_PINS_MASK), PUN_1_PIN))

Flag(req, bit) == IF BitAnd(req, bit) # {} THEN 1 ELSE 0

TagBytes == {CharR, CharS, CharP, CharQ}
NoTag(out) == \A i \in 1..Len(out) : out[i] \notin TagBytes

InDebounce == pc \in {"gpio_debounce", "gpio_debounce_loop"}

\* 20/11/2023: control is in the fault handler or parked in halt()
InFaultHandler ==
  \/ pc \in {"handler", "handler_cancel", "handler_io_off", "handler_logging",
             "handler_signals", "halt_logging", "halted"}
  \/ InDebounce /\ ret \in {"handler_logging", "halt_logging"}

\* 31/10/2023: control is in the fault handler or parked in its endless loop
OctInFaultHandler ==
  pc \in {"o_handler", "o_handler_cancel", "o_handler_io_off",
          "o_handler_logging", "o_halted"}

\* the labels at which gpio_debounce hands its result to a caller
DebounceReturns ==
  {"handler_logging", "halt_logging", "starting_logging", "waiting_logging",
   "wait_for_no_request", "polling_logging", "classify"}

\* C1: once the fault handler has been entered (any fault code, logging
\* enabled or not) control stays in the handler or parked, where no transfer
\* is started, and the acknowledge line is low from cancel_ack() onwards.
C1_FaultIsTerminal ==
  fail_code # 0 =>
    /\ OctInFaultHandler
    /\ pc \in {"o_handler_io_off", "o_handler_logging", "o_halted"} => ~AckHigh

\* C2: a debounced sample with both requests set leaves the system halted
\* with REQUEST_FAIL, no tag sent and the acknowledge line low; it is not
\* passed over and polling does not resume.
C2_BothRequestsHalt ==
  /\ pc = "classify" /\ Flag(next, RDRREQ_BIT) = 1 /\ Flag(next, PUNREQ_BIT) = 1
       => request_type(next) = BAD
  /\ fail_code = REQUEST_FAIL =>
       /\ InFaultHandler
       /\ NoTag(sent)
       /\ ~AckHigh

\* C3: an unrecognized command byte read with logging disabled leaves the
\* system halted with COMMAND_FAIL; read with logging enabled it is logged
\* and the loop goes on to poll.
C3_UnrecognizedCommand ==
  /\ fail_code = COMMAND_FAIL => OctInFaultHandler
  /\ pc = "o_poll" /\ data \notin {PICO_ERROR_TIMEOUT, NUL, DEL, CharD}
       => sent = LogLine(MsgUnrecognized)

\* C4: the value gpio_debounce returns was seen on two consecutive samples,
\* the returned sample being the second of them.
C4_DebounceStable == pc \in DebounceReturns => next = last

\* the table of request kinds by reader-request, punch-request and select
TruthTable(r, p, t) ==
  CASE r = 0 /\ p = 0 -> NONE
    [] r = 1 /\ p = 0 /\ t = 0 -> READER
    [] r = 1 /\ p = 0 /\ t = 1 -> READ_TTY
    [] r = 0 /\ p = 1 /\ t = 0 -> PUNCH
    [] r = 0 /\ p = 1 /\ t = 1 -> WRITE_TTY
    [] r = 1 /\ p = 1 -> BAD

\* C5: request_type follows the truth table on the reader-request,
\* punch-request and select flags of the sample, whatever the data and
\* logging bits are.
C5_RequestTypeTable ==
  pc = "classify" =>
    /\ request_type(next) =
         TruthTable(Flag(next, RDRREQ_BIT), Flag(next, PUNREQ_BIT),
                    Flag(next, TTYSEL_BIT))
    /\ request_type(next) = request_type(BitAnd(next, REQ_BITS))

\* a teletype write request is classified with 0xFF on the data lines and
\* the logging switch on
C5_Witness ==
  /\ pc = "classify"
  /\ request_type(next) = WRITE_TTY
  /\ PunchLines(next) = 255
  /\ BitAnd(next, LOG_BIT) # {}

\* C6: a request is sampled for classification and classified only when no
\* transfer is open, that is when every transfer started has had its
\* acknowledge pulse and a later sample with the request lines low.
C6_NonReentrant ==
  (pc \in {"loop", "classify"} \/ (InDebounce /\ ret = "classify"))
    => xfer = "idle"

\* a punch request is classified after a read transfer of 0x41 has completed
C6_Witness ==
  /\ pc = "classify"
  /\ request_type(next) = PUNCH
  /\ ReaderLines = 65
  /\ xfer = "idle"

C8_WriteTransfer ==
  /\ pc \in {"punch_output", "punch_output_send"} =>
       ch = PunchLines(request) /\ ch \in punLines /\ sent = <<>>
  /\ (\/ pc \in {"punch_output_ack", "punch_output_ack_low", "punch_output_io_off"}
      \/ xfer = "acked" /\ wret = "punch_output_io_off") =>
       /\ ch = PunchLines(request)
       /\ ch \in punLines
       /\ sent = <<IF Flag(request, TTYSEL_BIT) = 1 THEN CharQ ELSE CharP, ch>>

\* 0xFF has been captured from the punch lines and sent after 'P'
C8_Witness ==
  /\ pc = "punch_output_io_off"
  /\ PunchLines(request) = 255
  /\ ch = 255
  /\ sent = <<CharP, 255>>

\* C9: a gate is passed on a device no earlier than the time of the last
\* gate passed on that device plus the period that gate set.
C9_GateSpacing ==
  /\ pc = "o_put_set" =>
       now >= last_gate[Device("reader", tty)][1] + last_gate[Device("reader", tty)][2]
  /\ pc = "o_get_set" =>
       now >= last_gate[Device("punch", tty)][1] + last_gate[Device("punch", tty)][2]

\* C10: the step that handles 'D' changes the three periods and leaves the
\* three deadlines as they are, and the step that follows a gate sets the
\* deadline of its device from the period then current.
C10_RateToggle ==
  [][/\ (pc = "o_cmd" /\ pc' = "o_poll" /\ data' = CharD) =>
          /\ <<reader_free, punch_free, tty_free>>' = <<reader_free, punch_free, tty_free>>
          /\ reader_time' # reader_time
          /\ punch_time' # punch_time
          /\ tty_time' # tty_time
     /\ (pc = "o_put_set" /\ tty = 0) => reader_free' = now + reader_time
     /\ (pc = "o_get_set" /\ tty = 0) => punch_free' = now + punch_time
     /\ (pc \in {"o_put_set", "o_get_set"} /\ tty # 0) => tty_free' = now + tty_time
    ]_vars

\* 'D' has just been handled while the reader's deadline lies ahead
C10_Witness ==
  /\ pc = "o_poll"
  /\ data = CharD
  /\ reader_time = FAST_READER
  /\ reader_free > now

\* the timing profile and its two presets
Profile == <<reader_time, punch_time, tty_time>>
SlowPreset == <<SLOW_READER, SLOW_PUNCH, SLOW_TTY>>
FastPreset == <<FAST_READER, FAST_PUNCH, FAST_TTY>>

\* the step that handles the command byte 'D'
StepD == pc = "o_cmd" /\ pc' = "o_poll" /\ data' = CharD

\* C11: the timing profile is the slow preset at the start, is always the
\* slow or the fast preset, is switched to the other preset by each step
\* that handles 'D' and is changed by no other step.
C11_TimingProfile ==
  /\ Profile = SlowPreset
  /\ [](Profile \in {SlowPreset, FastPreset})
  /\ [][IF StepD
          THEN Profile' = (IF Profile = SlowPreset THEN FastPreset ELSE SlowPreset)
          ELSE Profile' = Profile]_vars

\* a second 'D' has switched the profile back to the slow preset
C11_Witness ==
  /\ pc = "o_poll"
  /\ data = CharD
  /\ Profile = SlowPreset
  /\ gates > 0

\* the device a transfer in progress is for: by its direction (the routine
\* running) and the select flag of the sample that started it
PutLabels ==
  {"o_put", "o_put_gate", "o_put_set", "o_put_check", "o_put_getchar",
   "o_put_pack", "o_put_ack", "o_put_ack_low", "o_put_io_off"}
GetLabels ==
  {"o_get", "o_get_gate", "o_get_set", "o_get_send", "o_get_check",
   "o_get_ack", "o_get_ack_low", "o_get_io_off"}
Selected ==
  IF tty # 0 THEN "tty" ELSE IF pc \in PutLabels THEN "reader" ELSE "punch"

\* C12: from the point where a transfer is about to raise the acknowledge
\* line up to its end, the deadlines waited on and set in it are one wait
\* followed by one setting, both of the device selected by the direction
\* and the select flag; and only a gate changes a deadline in a transfer.
C12_GateOncePerTransfer ==
  /\ [](pc \in {"o_put_ack", "o_put_ack_low", "o_put_io_off",
                "o_get_ack", "o_get_ack_low", "o_get_io_off"}
          => gated = << <<"wait", Selected>>, <<"set", Selected>> >>)
  /\ [](AckHigh => gated = << <<"wait", Selected>>, <<"set", Selected>> >>)
  /\ [][(pc \in PutLabels \cup GetLabels /\ gated' = gated)
          => <<reader_free, punch_free, tty_free>>' = <<reader_free, punch_free, tty_free>>]_vars
  /\ [][(pc \in {"o_put_set", "o_get_set"})
          => /\ (Selected = "tty") = (tty_free' # tty_free)
             /\ (Selected = "reader") = (reader_free' # reader_free)
             /\ (Selected = "punch") = (punch_free' # punch_free)]_vars

\* a teletype write is about to lower the acknowledge line, its gate behind it
C12_Witness ==
  /\ pc = "o_get_ack_low"
  /\ AckHigh
  /\ tty # 0
  /\ tty_free = now + tty_time

\* the in-progress indicator
IoHigh == IO_PIN \in gpio_out

\* C13: in the fault handler the blink rate is already fast when the
\* acknowledge line is forced low, the line is already low when the
\* in-progress indicator is cleared, both are done when the logging switch is
\* read, the message naming the fault has been sent exactly when logging was
\* found enabled, and after that control is parked for good.
C13_HandlerOrder ==
  /\ pc \in {"handler_cancel", "handler_io_off"} => blink = FAST_BLINK
  /\ pc = "handler_io_off" => ~AckHigh
  /\ (pc = "handler_logging" \/ (InDebounce /\ ret = "handler_logging"))
       => blink = FAST_BLINK /\ ~AckHigh /\ ~IoHigh /\ sent = <<>>
  /\ pc = "handler_signals" => sent = HaltedAfterError(fail_code)
  /\ fail_code # 0 =>
       /\ InFaultHandler
       /\ pc = "halted" => blink = FAST_BLINK /\ ~AckHigh /\ ~IoHigh

\* the reader-request and punch-request flags of a sample
RequestFlags(req) == BitAnd(req, BitOr(RDRREQ_BIT, PUNREQ_BIT))

\* C14: after the acknowledge pulse of a transfer, wait_for_no_request
\* returns to its caller on the first debounced sample in which the
\* reader-request and punch-request flags are both low, whatever the select
\* line reads in it.
C14_WaitEndsOnRequestLow ==
  [][(pc = "wait_for_no_request" /\ xfer = "acked" /\ RequestFlags(next) = {})
       => pc' = wret]_vars

(***************************************************************************)
(* The 20/11/2023 revision with the processor running on: every step that  *)
(* does not wait for the operator is taken sooner or later.  getchar()     *)
(* blocks until the operator sends a byte, which it need not do, so the    *)
(* steps that read with getchar() are not forced.  The logging switch is   *)
(* on and the lines hold still while they are debounced.                   *)
(***************************************************************************)
InitFair == InitEnv({165}, {65}, {1}, TRUE)

NextRuns ==
  \/ setjmp \/ handler_blink \/ handler_cancel \/ handler_io_off
  \/ handler_logging \/ handler_signals \/ halt
  \/ drain \/ restart_signal \/ starting_logging \/ set_slow
  \/ waiting_logging \/ wait_for_no_request \/ polling \/ polling_logging
  \/ gpio_debounce_enter \/ gpio_debounce_loop
  \/ loop \/ classify
  \/ read_input \/ read_input_select \/ read_input_send \/ read_input_ack
  \/ read_input_ack_low \/ read_input_io_off
  \/ punch_output \/ punch_output_send \/ punch_output_ack
  \/ punch_output_ack_low \/ punch_output_io_off

SpecFair == InitFair /\ [][Next]_vars /\ WF_vars(NextRuns)

\* C15: the wait that follows an acknowledge pulse ends: either a sample
\* with the request lines low is seen or a fault is raised.
C15_WaitForClearEnds == (xfer = "acked") ~> (xfer = "idle" \/ InFaultHandler)

\* C16: the wait for the operator's byte in a read transfer ends: either the
\* byte is put on the reader lines or a fault is raised.
C16_WaitForByteEnds ==
  (pc = "read_input_tty") ~> (pc = "read_input_send" \/ InFaultHandler)

\* the step of put_pts_ch that tests a sample: the one after the gate, or
\* one after a time-out of getchar_timeout_us(1000)
PutSampleStep == pc = "o_put_check" \/ (pc = "o_put_getchar" /\ now' # now)

\* C17: in put_pts_ch a tested sample without the reader request raises
\* READ_PROTOCOL_FAIL at once, leaving the outputs as they are; up to that
\* point of the transfer the reader lines have not been written and no
\* acknowledge pulse has been made.
C17_ReadProtocolFail ==
  /\ [][(PutSampleStep /\ Flag(request', RDRREQ_BIT) = 0)
          => /\ pc' = "o_handler"
             /\ fail_code' = READ_PROTOCOL_FAIL
             /\ gpio_out' = gpio_out
             /\ xfer' = "started"]_vars
  /\ [][(PutSampleStep /\ Flag(request', RDRREQ_BIT) = 1)
          => pc' = "o_put_getchar" /\ fail_code' = fail_code]_vars
  /\ [][(pc \in {"o_put_gate", "o_put_set", "o_put_check", "o_put_getchar"})
          => /\ ReaderLines' = ReaderLines
             /\ ~AckHigh /\ ~AckHigh'
             /\ xfer = "started"]_vars

\* the reader request was gone in the sample taken after a time-out
C17_Witness ==
  /\ pc = "o_handler"
  /\ fail_code = READ_PROTOCOL_FAIL
  /\ Flag(request, RDRREQ_BIT) = 0
  /\ now >= GETCHAR_TIMEOUT
  /\ sent = <<CharR>>
  /\ xfer = "started"

\* C18: in get_pts_ch, after the tag and the byte have been sent, a sample
\* without the punch request raises PUNCH_PROTOCOL_FAIL with no acknowledge
\* pulse made; with the punch request the transfer goes on to ack() and
\* ends with exactly one pulse made.
C18_PunchProtocolFail ==
  /\ [][(pc = "o_get_check" /\ Flag(request', PUNREQ_BIT) = 0)
          => /\ pc' = "o_handler"
             /\ fail_code' = PUNCH_PROTOCOL_FAIL
             /\ gpio_out' = gpio_out
             /\ xfer' = "started"]_vars
  /\ [][(pc = "o_get_check" /\ Flag(request', PUNREQ_BIT) = 1)
          => pc' = "o_get_ack" /\ fail_code' = fail_code]_vars
  /\ [](pc \in {"o_get_gate", "o_get_set", "o_get_send", "o_get_check", "o_get_ack"}
          => xfer = "started" /\ ~AckHigh)
  /\ [](pc = "o_get_check" => sent = <<PunchTag(tty), ch>>)
  /\ [](pc = "o_get_ack_low" => xfer = "started" /\ AckHigh)
  /\ [](pc = "o_get_io_off" => xfer = "acked" /\ ~AckHigh)

\* the punch request was gone after 'P' and the byte had been sent
C18_Witness ==
  /\ pc = "o_handler"
  /\ fail_code = PUNCH_PROTOCOL_FAIL
  /\ Flag(request, PUNREQ_BIT) = 0
  /\ sent = <<CharP, 165>>
  /\ xfer = "started"
  /\ ~AckHigh

\* C19: an iteration of the polling loop whose debounced sample has neither
\* request flag set, whatever its select flag and data bits, sends nothing,
\* leaves the reader data lines, the in-progress indicator, the blink rate
\* and the fault code as they were, ends with the acknowledge line low and
\* goes back to the top of the loop.
C19_IdleIteration ==
  [][(pc = "classify" /\ RequestFlags(next) = {})
       => /\ sent' = sent
          /\ ReaderLines' = ReaderLines
          /\ IoHigh' = IoHigh
          /\ blink' = blink
          /\ fail_code' = fail_code
          /\ xfer' = xfer
          /\ ~AckHigh'
          /\ pc' = "loop"]_vars

\* an idle iteration has ended on a sample with the select flag and punch
\* data bits set
C19_Witness ==
  /\ pc = "loop"
  /\ RequestFlags(request) = {}
  /\ Flag(request, TTYSEL_BIT) = 1
  /\ PunchLines(request) = 165
  /\ fail_code = 0
  /\ ~AckHigh

\* C20: a (re)start reads the operator's line until a read times out, sending
\* nothing, then sends NUL, NL and the tag 'Z'; until 'Z' has been sent
\* control is in that sequence, so no sample is taken for classification,
\* none is classified, and the acknowledge line stays low.
C20_RestartOrder ==
  /\ pc = "setjmp" /\ xfer = "restart"
  /\ [][(pc = "drain")
          => pc' \in {"drain", "restart_signal"} /\ sent' = sent /\ xfer' = xfer]_vars
  /\ [][(pc = "restart_signal") => sent' = sent \o <<NUL, NL, CharZ>>]_vars
  /\ [](xfer = "restart"
          => /\ pc \in {"setjmp", "drain", "restart_signal"}
             /\ \A i \in 1..Len(sent) : sent[i] # CharZ
             /\ ~AckHigh)
  /\ []((pc \in {"loop", "classify"} \/ ret = "classify" \/ AckHigh)
          => xfer # "restart")

\* polling begins with NUL, NL and 'Z' the only bytes sent
C20_Witness ==
  /\ pc = "loop"
  /\ sent = <<NUL, NL, CharZ>>
  /\ xfer = "idle"
  /\ fail_code = 0
  /\ ~AckHigh

\* 20/11/2023: control is in the polling loop or in a transfer
InLoop ==
  \/ pc \in {"loop", "classify", "read_input", "read_input_select",
             "read_input_tty", "read_input_len", "read_input_fill",
             "read_input_send", "read_input_ack", "read_input_ack_low",
             "read_input_io_off", "punch_output", "punch_output_send",
             "punch_output_ack", "punch_output_ack_low", "punch_output_io_off"}
  \/ InDebounce /\ ret = "classify"
  \/ (pc = "wait_for_no_request" \/ (InDebounce /\ ret = "wait_for_no_request"))
       /\ wret # "polling"

\* C21: blink is NO_BLINK only before the loop runs, SLOW_BLINK while the
\* loop polls or transfers, FAST_BLINK only once a fault has been raised,
\* and once FAST_BLINK it is never given another value.
C21_StatusRate ==
  /\ [](blink = NO_BLINK => ~InLoop /\ ~InFaultHandler)
  /\ [](InLoop => blink = SLOW_BLINK)
  /\ [](blink = FAST_BLINK => fail_code # 0)
  /\ [][blink = FAST_BLINK => blink' = FAST_BLINK]_vars

\* the status indicator line, the other output lines, and the state of core 0
StatusHigh == STATUS_PIN \in gpio_out
OtherLines == gpio_out \ {STATUS_PIN}
Core0State == <<pc, ret, wret, blink, fail_code, sent, data, request,
                tty, ch, xfer, dbv, bufv, timev>>

\* C22: a step of blinker leaves blink, every other variable of the emulation
\* loop and fault handler, and every output line but the status indicator
\* as they were; a step of the emulation loop or the fault handler leaves
\* the status indicator line and the locals of blinker as they were.
C22_SingleWriter ==
  /\ [][(pc1' # pc1) => Core0State' = Core0State /\ OtherLines' = OtherLines]_vars
  /\ [][(pc1' = pc1) => StatusHigh' = StatusHigh /\ blinkv' = blinkv]_vars

\* blinker has switched the indicator on while the loop holds ACK high
C22_Witness ==
  /\ pc1 = "blinker_sleep"
  /\ led_state = 1 /\ StatusHigh
  /\ blink_seen = SLOW_BLINK
  /\ AckHigh /\ IoHigh

\* a step of blinker that tests blink and drives the indicator, and one that
\* sleeps
LedStep == pc1 = "blinker" /\ pc1' = "blinker_sleep"
SleepStep == pc1 = "blinker_sleep" /\ pc1' = "blinker"

\* C23: each iteration of blinker tests blink; when it is NO_BLINK led_state
\* becomes 0, the indicator is driven low and the sleep is SLOW_BLINK (1000);
\* otherwise led_state is inverted and driven onto the indicator and the
\* sleep is the value of blink read for sleep_ms, 1000 for SLOW_BLINK and 250
\* for FAST_BLINK.  Once an iteration has been made the indicator shows
\* led_state, so that inverting led_state inverts the indicator.
C23_Blinker ==
  /\ [][LedStep => /\ blink_seen' = blink
                   /\ IF blink = NO_BLINK
                        THEN led_state' = 0 /\ ~StatusHigh'
                        ELSE /\ led_state' = 1 - led_state
                             /\ StatusHigh' = (led_state' = 1)]_vars
  /\ [][SleepStep => IF blink_seen = NO_BLINK
                       THEN slept' = 1000
                       ELSE /\ slept' \in {blink_seen, blink}
                            /\ slept' \in {250, 1000}
                            /\ slept' = 1000 <=> slept' = SLOW_BLINK]_vars
  /\ [](slept # 0 \/ pc1 = "blinker_sleep" => StatusHigh = (led_state = 1))

\* C23 as stated: the indicator line itself is inverted whenever blink is
\* not NO_BLINK, and the sleep is fixed by the value the test found
C23_BlinkerAsStated ==
  /\ [][LedStep => IF blink = NO_BLINK THEN ~StatusHigh'
                   ELSE StatusHigh' = ~StatusHigh]_vars
  /\ [][SleepStep => slept' = IF blink_seen = FAST_BLINK THEN 250 ELSE 1000]_vars

\* an iteration under FAST_BLINK has switched the indicator on and slept 250
C23_Witness ==
  /\ pc1 = "blinker"
  /\ slept = 250
  /\ blink = FAST_BLINK
  /\ led_state = 1 /\ StatusHigh

\* the onboard LED
LedHigh == LED_PIN \in gpio_out

\* control is in the loop that flashes the code
Flashing == pc \in {"t_pause", "t_for", "t_led_on", "t_led_off"}

\* C24: once halted with code c, the LED is switched only by the flash loop,
\* which makes groups of c flashes: no step of monitor changes the LED, the
\* LED is on through the on-time of each flash and off otherwise, and a
\* group ends after exactly c flashes.
C24_FlashCode ==
  /\ [][(Flashing /\ pc1' # pc1) => LedHigh' = LedHigh]_vars
  /\ [](pc = "t_led_off" => LedHigh)
  /\ [](pc \in {"t_pause", "t_for", "t_led_on"} /\ flash_j > 0 => ~LedHigh)
  /\ [][(pc = "t_for" /\ pc' = "t_pause") => flash_j = fail_code + 1]_vars

\* C25: when read_input presents a byte to the 920M, exactly one tag has
\* been sent for the transfer, 'S' with the select flag set and 'R' with it
\* clear, and the byte is one the operator sent.
C25_OneTagPerRead ==
  pc \in {"read_input_send", "read_input_ack", "read_input_ack_low"}
    => sent = <<IF tty # 0 THEN CharS ELSE CharR>> /\ ch \in opBytes

\* C26: in a write-direction transfer the tag and the payload are sent to the
\* operator only after the acknowledge pulse of the transfer has been made:
\* the pulse is not made with the tag already sent, and the step that sends
\* the tag is taken with the pulse completed.
C26_AckBeforeForward ==
  /\ [][(pc = "punch_output_send" /\ sent' # sent) => xfer = "acked" /\ ~AckHigh]_vars
  /\ [](pc \in {"punch_output_ack", "punch_output_ack_low"} => NoTag(sent))

\* a sequence of bytes made of log frames only: each 'L', then text without
\* a newline, then one newline
RECURSIVE Framed(_, _)
Framed(s, inside) ==
  IF s = <<>> THEN ~inside
  ELSE IF inside
    THEN IF Head(s) = NL THEN Framed(Tail(s), FALSE)
         ELSE Head(s) >= Text(0) /\ Framed(Tail(s), TRUE)
    ELSE Head(s) = CharL /\ Framed(Tail(s), TRUE)

\* C27: what the start-up sequence, the command switch and the fault handler
\* of the 31/10/2023 revision write to the serial port is made of log frames
\* only: 'L', text without a newline, one newline.
C27_LogFrames ==
  [][(pc \in {"o_reset_terminal", "o_cmd", "o_handler_logging"})
       => Framed(IF pc = "o_cmd" THEN sent'
                 ELSE SubSeq(sent', Len(sent) + 1, Len(sent')), FALSE)]_vars

\* C28: a command byte taken from the operator while the loop is idle that
\* is none of NUL, DEL and 'D', the restart command among them, is acted on
\* without a fault and the loop goes on to poll for a request.
C28_RestartCommand ==
  [][(pc = "o_cmd" /\ data' \notin {PICO_ERROR_TIMEOUT, NUL, DEL, CharD})
       => fail_code' = fail_code /\ pc' = "o_poll"]_vars

\* C29: put_pts_ch and get_pts_ch return to the loop only when, after the
\* acknowledge pulse, a sample with the request low has been taken (xfer is
\* then "idle", as after wait_for_no_request in the later revision).
C29_ReturnAfterRequestLow ==
  [][(pc \in {"o_put_io_off", "o_get_io_off"} /\ pc' = "o_cmd")
       => xfer = "idle"]_vars

\* C30: the loop enters get_pts_ch, which sends 'P' or 'Q', only on a sample
\* with the punch request set; on a sample with neither request set the
\* iteration ends there: nothing is sent, no deadline moves, no fault is
\* raised.
C30_WriteOnlyOnPunchRequest ==
  /\ [][(pc = "o_poll" /\ pc' = "o_get") => Flag(request', PUNREQ_BIT) = 1]_vars
  /\ [][(pc = "o_poll" /\ RequestFlags(request') = {})
          => /\ pc' = "o_cmd"
             /\ sent' = sent
             /\ fail_code' = fail_code
             /\ <<reader_free, punch_free, tty_free>>'
                  = <<reader_free, punch_free, tty_free>>]_vars

(***************************************************************************)
(* The reader's block buffer (read_input, 20/11/2023).  The operator       *)
(* answers 'R' with a count byte n and n + 1 data bytes.  Short blocks are *)
(* explored with two different data bytes, so that their order shows, and  *)
(* the longest block, count byte 255, with one.                            *)
(***************************************************************************)
\* the largest count byte getchar() can deliver
FullCount == 255

InitBlock ==
  \/ InitRun({165}, {65, 66}, {0, 1, 2}, {1}, TRUE)
  \/ InitRun({165}, {65}, {FullCount}, {1}, TRUE)

SpecBlock == InitBlock /\ [][Next]_vars

\* read_input is serving a reader transfer / a teletype transfer
ReaderRead == tty = 0 /\ pc \in {"read_input_select", "read_input_len",
                                 "read_input_fill", "read_input_send"}
TtyRead == tty # 0 /\ pc \in {"read_input", "read_input_select",
                              "read_input_tty", "read_input_send"}

\* C32: every index read_input uses to write (the fill loop) or to read
\* (buffer[buf_ptr++]) its buffer lies within 0..255, for every count byte
C32_BufferIndices ==
  /\ (pc = "read_input_fill" /\ fill_i <= buf_len) => fill_i \in 0..(BufferSize - 1)
  /\ (pc = "read_input_select" /\ tty = 0 /\ buf_ptr <= buf_len)
       => buf_ptr \in 0..(BufferSize - 1)

\* C31: the byte a reader transfer presents is the next data byte of the
\* last reply, in the order received; 'R' is sent only when the reply is
\* exhausted; a teletype read leaves the buffer as it is
C31_BlockDelivery ==
  /\ [][(pc = "read_input_send" /\ tty = 0)
          => /\ buf_ptr - 1 \in 1..Len(reply)
             /\ ch = reply[buf_ptr - 1]]_vars
  /\ [][(pc = "read_input_select" /\ pc' = "read_input_len")
          => buf_ptr - 1 >= Len(reply)]_vars
  /\ [][(pc = "read_input_fill" /\ pc' = "read_input_send")
          => Len(reply) = buf_len]_vars
  /\ [][TtyRead => UNCHANGED bufv]_vars

(***************************************************************************)
(* The 26/06/2021 test variant (picopts.c, second program of the file).    *)
(* main sets logging_enabled, resets the 920M and launches master, which   *)
(* runs punch_test and reader_test in turn; pc follows master.  The pins   *)
(* of this variant differ from the later revisions.  The loop that flashes *)
(* the fault code is the one of the flash-code test program.               *)
(***************************************************************************)
RDR_1_PIN21 == 0
PUN_1_PIN21 == 8
NOPOWER_PIN21 == 16
ACK_PIN21 == 17
PUNREQ_PIN21 == 20
RDRREQ_PIN21 == 21
POLL_LIMIT == 2000
READ == 1
PUNCH21 == 2
REQUEST_FAIL21 == 2
REQUEST_END_FAIL == 3
LOGGING_FAIL == 4
MsgPollTimeout == 24
MsgHalted21 == 25

\* cycles of a test, for the 10000000 that master passes
TestCycles == 2

RDR_PINS_MASK21 == Shl(WordOf(255), RDR_1_PIN21)
read_request_bit == Shl(WordOf(1), RDRREQ_PIN21)
punch_request_bit == Shl(WordOf(1), PUNREQ_PIN21)
request_bits == BitOr(read_request_bit, punch_request_bit)

\* gpio_get_all(): the punch lines and the two request flags
Samples21(flags) ==
  {BitOr(Shl(WordOf(b), PUN_1_PIN21), f) : b \in punLines, f \in flags}

AnyFlags == SUBSET request_bits
SetFlags == AnyFlags \ {{}}

longjmp21(code) == fail_code' = code /\ pc' = "j_handler"

\* if ( logging_enabled ) puts(...) else longjmp(jbuf, LOGGING_FAIL);
\* and cycles = 0 of the for statement
test_start(from, to) ==
  /\ pc = from
  /\ IF logging_enabled # 0
       THEN /\ cycles' = 0
            /\ pc' = to
            /\ UNCHANGED fail_code
       ELSE /\ longjmp21(LOGGING_FAIL)
            /\ UNCHANGED cycles
  /\ UNCHANGED <<ret, wret, gpio_out, blink, sent, data, request, tty, ch,
                 xfer, dbv, bufv, timev, envv, blinkv, flashv, polls,
                 max_poll, logging_enabled, holdPolls, loopv>>

\* cycles < max, then the call of wait_for_request
test_for(from, check, done) ==
  /\ pc = from
  /\ IF cycles < TestCycles
       THEN pc' = "j_wait_for_request" /\ ret' = check
       ELSE pc' = done /\ ret' = ret
  /\ UNCHANGED <<wret, gpio_out, blink, fail_code, sent, data, request, tty,
                 ch, xfer, dbv, bufv, timev, envv, blinkv, flashv, junev, loopv>>

punch_test == test_start("j_punch_test", "j_punch_for")
punch_test_for == test_for("j_punch_for", "j_punch_check", "j_reader_test")
reader_test == test_start("j_reader_test", "j_reader_for")
reader_test_for == test_for("j_reader_for", "j_reader_check", "j_punch_test")

\* while ( !((pins = gpio_get_all()) & (read_request_bit | punch_request_bit)) )
wait_for_request21 ==
  /\ pc = "j_wait_for_request"
  /\ request' \in Samples21(AnyFlags)
  /\ pc' = IF BitAnd(request', request_bits) # {} THEN ret ELSE pc
  /\ UNCHANGED <<ret, wret, gpio_out, blink, fail_code, sent, data, tty, ch,
                 xfer, dbv, bufv, timev, envv, blinkv, flashv, junev, loopv>>

wait_result_punch_first(pins) ==
  IF BitAnd(pins, punch_request_bit) # {} THEN PUNCH21 ELSE READ

\* if ( (pins & read_request_bit) ) return READ;
\* else if ( (pins & punch_request_bit) ) return PUNCH;
wait_result(pins) ==
  IF BitAnd(pins, read_request_bit) # {} THEN READ ELSE PUNCH21

\* if ( wait_for_request() != ... ) longjmp(jbuf, REQUEST_FAIL);
test_check(from, wanted, to) ==
  /\ pc = from
  /\ IF wait_result(request) # wanted
       THEN longjmp21(REQUEST_FAIL21)
       ELSE pc' = to /\ UNCHANGED fail_code
  /\ UNCHANGED <<ret, wret, gpio_out, blink, sent, data, request, tty, ch,
                 xfer, dbv, bufv, timev, envv, blinkv, flashv, junev, loopv>>

punch_test_check == test_check("j_punch_check", PUNCH21, "j_get_pts_ch")
reader_test_check == test_check("j_reader_check", READ, "j_put_pts_ch")

\* put_pts_ch(cycles&255): gpio_put_masked(RDR_PINS_MASK, ch << RDR_1_PIN)
put_pts_ch21 ==
  /\ pc = "j_put_pts_ch"
  /\ ch' = cycles % 256
  /\ gpio_out' = gpio_put_masked(gpio_out, RDR_PINS_MASK21,
                                 Shl(WordOf(ch'), RDR_1_PIN21))
  /\ pc' = "j_ack"
  /\ wret' = "j_reader_next"
  /\ UNCHANGED <<ret, blink, fail_code, sent, data, request, tty,
                 xfer, dbv, bufv, timev, envv, blinkv, flashv, junev, loopv>>

\* get_pts_ch: ch = (gpio_get_all() >> PUN_1_PIN) & 255
get_pts_ch21 ==
  /\ pc = "j_get_pts_ch"
  /\ \E s \in Samples21(AnyFlags) :
       ch' = ValueOf(BitAnd(Shr(s, PUN_1_PIN21), WordOf(255)))
  /\ pc' = "j_ack"
  /\ wret' = "j_punch_got"
  /\ UNCHANGED <<ret, gpio_out, blink, fail_code, sent, data, request, tty,
                 xfer, dbv, bufv, timev, envv, blinkv, flashv, junev, loopv>>

\* ack: gpio_put(ACK_PIN, 1); busy_wait_us_32(4)
ack21 ==
  /\ pc = "j_ack"
  /\ gpio_out' = gpio_put(gpio_out, ACK_PIN21, 1)
  /\ pc' = "j_ack_low"
  /\ UNCHANGED <<ret, wret, blink, fail_code, sent, data, request, tty, ch,
                 xfer, dbv, bufv, timev, envv, blinkv, flashv, junev, loopv>>

\* ack: gpio_put(ACK_PIN, 0); then wait_for_no_request: count = 0
ack21_low ==
  /\ pc = "j_ack_low"
  /\ gpio_out' = gpio_put(gpio_out, ACK_PIN21, 0)
  /\ polls' = 0
  /\ pc' = "j_wait_for_no_request"
  /\ UNCHANGED <<ret, wret, blink, fail_code, sent, data, request, tty, ch,
                 xfer, dbv, bufv, timev, envv, blinkv, flashv, max_poll,
                 cycles, logging_enabled, holdPolls, loopv>>

poll_limit_reached(c) == c >= POLL_LIMIT

\* if ( count > POLL_LIMIT )
poll_limit_passed(c) == c > POLL_LIMIT

\* one evaluation of the while condition of wait_for_no_request and, if a
\* request flag is set, one execution of its body; the 920M withdraws the
\* request only after one of the numbers of polls in holdPolls
wait_for_no_request21 ==
  /\ pc = "j_wait_for_no_request"
  /\ request' \in Samples21(SetFlags \cup (IF polls \in holdPolls THEN {{}} ELSE {}))
  /\ IF BitAnd(request', request_bits) # {}
       THEN /\ polls' = polls + 1
            /\ max_poll' = IF polls > max_poll THEN polls + 1 ELSE max_poll
            /\ IF poll_limit_passed(polls')
                 THEN /\ sent' = IF logging_enabled # 0
                                   THEN <<Text(MsgPollTimeout), polls' - 1>>
                                   ELSE sent
                      /\ longjmp21(REQUEST_END_FAIL)
                 ELSE UNCHANGED <<sent, fail_code, pc>>
       ELSE /\ pc' = wret
            /\ UNCHANGED <<polls, max_poll, sent, fail_code>>
  /\ UNCHANGED <<ret, wret, gpio_out, blink, data, tty, ch,
                 xfer, dbv, bufv, timev, envv, blinkv, flashv,
                 cycles, logging_enabled, holdPolls, loopv>>

\* reader_test: cycles++
reader_test_next ==
  /\ pc = "j_reader_next"
  /\ cycles' = cycles + 1
  /\ pc' = "j_reader_for"
  /\ UNCHANGED <<ret, wret, gpio_out, blink, fail_code, sent, data, request,
                 tty, ch, xfer, dbv, bufv, timev, envv, blinkv, flashv,
                 polls, max_poll, logging_enabled, holdPolls, loopv>>

\* punch_test: if ( got != expected ) longjmp(jbuf, TEST_FAIL); cycles++
punch_test_got ==
  /\ pc = "j_punch_got"
  /\ IF ch # cycles % 256
       THEN longjmp21(TEST_FAIL) /\ UNCHANGED cycles
       ELSE /\ cycles' = cycles + 1
            /\ pc' = "j_punch_for"
            /\ UNCHANGED fail_code
  /\ UNCHANGED <<ret, wret, gpio_out, blink, sent, data, request,
                 tty, ch, xfer, dbv, bufv, timev, envv, blinkv, flashv,
                 polls, max_poll, logging_enabled, holdPolls, loopv>>

\* main after setjmp returns the code: monitoring = FALSE; set_power_off();
\* if ( logging_enabled ) printf("PicoPTS halted after error with code %d ...")
handler21 ==
  /\ pc = "j_handler"
  /\ monitoring' = FALSE
  /\ gpio_out' = gpio_put(gpio_out, NOPOWER_PIN21, 1)
  /\ sent' = IF logging_enabled # 0
               THEN <<Text(MsgHalted21), Text(fail_code)>> ELSE sent
  /\ pc' = "t_pause"
  /\ UNCHANGED <<ret, wret, blink, fail_code, data, request, tty, ch,
                 xfer, dbv, bufv, timev, envv, blinkv, flash_j, junev, loopv>>

\* main has read the logging switch, pulsed NOPOWER and launched master;
\* the 920M drives 0 or 1 on the punch lines and withdraws a request at
\* once, after one poll or after POLL_LIMIT polls, if at all
Init21 ==
  /\ pc = "j_punch_test"
  /\ ret = "none"
  /\ wret = "none"
  /\ gpio_out = {}
  /\ blink = NO_BLINK
  /\ fail_code = 0
  /\ sent = <<>>
  /\ data = PICO_ERROR_TIMEOUT
  /\ request = {}
  /\ tty = 0
  /\ ch = 0
  /\ count = 0 /\ last = {} /\ next = {} /\ repeat = FALSE
  /\ buffer = <<>> /\ buf_ptr = 257 /\ buf_len = 0 /\ fill_i = 0
  /\ reply = <<>>
  /\ now = 0
  /\ reader_free = 0 /\ punch_free = 0 /\ tty_free = 0
  /\ reader_time = 0 /\ punch_time = 0 /\ tty_time = 0
  /\ xfer = "idle"
  /\ last_gate = <<>>
  /\ gates = 0
  /\ gated = <<>>
  /\ punLines = {0, 1}
  /\ opBytes = {65}
  /\ opCounts = 0..MaxCount
  /\ logLevels = {0, 1}
  /\ steady = TRUE
  /\ pc1 = "m_start" /\ led_state = 0 /\ blink_seen = NO_BLINK /\ slept = 0
  /\ monitoring = TRUE /\ flash_j = 0
  /\ polls = 0 /\ max_poll = 0 /\ cycles = 0
  /\ logging_enabled \in logLevels
  /\ holdPolls = {0, 1, POLL_LIMIT}
  /\ loop_i = 0 /\ loop_j = 0 /\ errors = 0

Next21 ==
  \/ punch_test \/ punch_test_for \/ punch_test_check \/ get_pts_ch21
  \/ punch_test_got
  \/ reader_test \/ reader_test_for \/ reader_test_check \/ put_pts_ch21
  \/ reader_test_next
  \/ wait_for_request21 \/ ack21 \/ ack21_low \/ wait_for_no_request21
  \/ handler21 \/ flash_pause \/ flash_for \/ flash_on \/ flash_off

Spec21 == Init21 /\ [][Next21]_vars

\* a step of wait_for_no_request (picopts.c), which takes one sample
PollStep == pc = "j_wait_for_no_request"
FlagsOf(pins) == BitAnd(pins, request_bits)

\* C33: wait_for_no_request starts its count at 0, counts the consecutive
\* polls that show a request flag, raises REQUEST_END_FAIL on the poll that
\* takes the count past POLL_LIMIT and on no other, and returns without a
\* fault on the first poll that shows both flags clear
C33_PollLimit ==
  /\ [][(pc' = "j_wait_for_no_request" /\ ~PollStep) => polls' = 0]_vars
  /\ [][(PollStep /\ FlagsOf(request') = {})
          => /\ pc' = wret /\ fail_code' = 0
             /\ polls <= POLL_LIMIT]_vars
  /\ [][(PollStep /\ FlagsOf(request') # {} /\ polls < POLL_LIMIT)
          => /\ PollStep' /\ fail_code' = 0
             /\ polls' = polls + 1]_vars
  /\ [][(PollStep /\ FlagsOf(request') # {} /\ polls >= POLL_LIMIT)
          => /\ pc' = "j_handler" /\ fail_code' = REQUEST_END_FAIL
             /\ polls' = POLL_LIMIT + 1]_vars
  /\ [][(fail_code = 0 /\ fail_code' = REQUEST_END_FAIL)
          => PollStep /\ polls = POLL_LIMIT]_vars

\* one call returned after exactly POLL_LIMIT polls with a request, a later
\* one has raised the fault on its poll POLL_LIMIT + 1
C33_Witness ==
  /\ pc = "j_handler" /\ fail_code = REQUEST_END_FAIL
  /\ polls = POLL_LIMIT + 1 /\ max_poll = POLL_LIMIT
  /\ FlagsOf(request) # {}

\* C39: wait_for_request returns on a sample with a request flag, READ if
\* the reader flag is set in it and PUNCH otherwise; reader_test raises
\* REQUEST_FAIL exactly on a punch request without a reader request and
\* punch_test exactly when the reader flag is set
C39_RequestKind ==
  /\ [][(pc = "j_wait_for_request" /\ pc' # pc)
          => /\ FlagsOf(request') # {}
             /\ wait_result(request') \in {READ, PUNCH21}
             /\ wait_result(request') = READ
                  <=> BitAnd(request', read_request_bit) # {}]_vars
  /\ [][(pc = "j_wait_for_request" /\ FlagsOf(request') = {}) => pc' = pc]_vars
  /\ [][pc = "j_reader_check"
          => /\ UNCHANGED request
             /\ (pc' = "j_handler" /\ fail_code' = REQUEST_FAIL21)
                  <=> FlagsOf(request) = punch_request_bit
             /\ pc' = "j_put_pts_ch" <=> BitAnd(request, read_request_bit) # {}]_vars
  /\ [][pc = "j_punch_check"
          => /\ UNCHANGED request
             /\ (pc' = "j_handler" /\ fail_code' = REQUEST_FAIL21)
                  <=> BitAnd(request, read_request_bit) # {}
             /\ pc' = "j_get_pts_ch" <=> FlagsOf(request) = punch_request_bit]_vars
  /\ [][(fail_code = 0 /\ fail_code' = REQUEST_FAIL21)
          => pc \in {"j_reader_check", "j_punch_check"}]_vars

\* punch_test has rejected a sample with both request flags set
C39_Witness ==
  /\ pc = "j_handler" /\ fail_code = REQUEST_FAIL21
  /\ ret = "j_punch_check" /\ FlagsOf(request) = request_bits

(***************************************************************************)
(* gpio_debounce on lines that can all be low: the 920M drives 0 on the    *)
(* punch lines, and the lines change at any time.                          *)
(***************************************************************************)
InitDebounce == InitRun({0}, {65}, 0..MaxCount, {0, 1}, FALSE)

SpecDebounce == InitDebounce /\ [][Next]_vars

\* C34: gpio_debounce never returns while every sample of the call differed
\* from the one before it, and its steps change no output line and nothing
\* of the program's state but its own locals
C34_DebounceWaits ==
  /\ [][(pc = "gpio_debounce_loop" /\ pc' # pc) => repeat]_vars
  /\ [][(pc \in {"gpio_debounce", "gpio_debounce_loop"})
          => UNCHANGED <<ret, wret, gpio_out, blink, fail_code, sent, data,
                         request, tty, ch, xfer, bufv, timev>>]_vars

\* the time blinker sleeps when it goes by the rate r
Interval(r) == IF r = NO_BLINK THEN SLOW_BLINK ELSE r

\* a sleep that is not the one of the rate blink holds when it is chosen
StaleSleep == SleepStep /\ slept' # Interval(blink)

\* C35: every iteration of blinker reads blink afresh, and nothing but
\* blinker touches the value it read; a sleep that does not go by the
\* current rate goes by the rate its own iteration read before blink was
\* written, so that a write of blink is followed by at most one such sleep
\* and every later sleep uses the new rate
C35_OneCycleStale ==
  /\ [][LedStep => blink_seen' = blink]_vars
  /\ [][(pc1' = pc1) => UNCHANGED <<blink_seen, slept>>]_vars
  /\ [][(pc1' # pc1) => UNCHANGED blink]_vars
  /\ [][StaleSleep => /\ blink_seen # blink
                      /\ slept' = Interval(blink_seen)]_vars
  /\ [][(SleepStep /\ blink_seen = blink) => slept' = Interval(blink)]_vars

\* the fault handler has written FAST_BLINK between the test and the sleep
\* of an iteration that found SLOW_BLINK
C35_Witness ==
  /\ pc1 = "blinker_sleep"
  /\ blink_seen = SLOW_BLINK /\ blink = FAST_BLINK
  /\ slept = SLOW_BLINK /\ fail_code # 0

\* the deadlines and the periods of the three devices
Deadlines == <<reader_free, punch_free, tty_free>>
Periods == <<reader_time, punch_time, tty_time>>

\* C36: the gate of a transfer sets the deadline of its own device from that
\* device's period and leaves the two other deadlines and the three periods
\* as they are: reader_free for a reader transfer, punch_free for a punch
\* transfer, tty_free for a teletype transfer in either direction; waiting
\* on a deadline changes none
C36_IndependentDeadlines ==
  /\ [][(pc \in {"o_put_set", "o_get_set"} /\ tty # 0)
          => /\ tty_free' = now + tty_time
             /\ UNCHANGED <<reader_free, punch_free, Periods>>]_vars
  /\ [][(pc = "o_put_set" /\ tty = 0)
          => /\ reader_free' = now + reader_time
             /\ UNCHANGED <<punch_free, tty_free, Periods>>]_vars
  /\ [][(pc = "o_get_set" /\ tty = 0)
          => /\ punch_free' = now + punch_time
             /\ UNCHANGED <<reader_free, tty_free, Periods>>]_vars
  /\ [][(pc \in {"o_put_gate", "o_get_gate"}) => UNCHANGED <<Deadlines, Periods>>]_vars

\* a teletype read has set tty_free after a reader transfer set reader_free,
\* which still holds the deadline of that transfer
C36_Witness ==
  /\ pc = "o_put_ack" /\ tty # 0
  /\ gates = 2
  /\ tty_free = now + tty_time
  /\ reader_free # 0 /\ reader_free < tty_free
  /\ punch_free = 0

\* 20/11/2023: control is between io_on() and io_off() of a transfer
InTransfer ==
  \/ pc \in {"read_input_select", "read_input_tty", "read_input_len",
             "read_input_fill", "read_input_send", "read_input_ack",
             "read_input_ack_low", "read_input_io_off", "punch_output_send",
             "punch_output_ack", "punch_output_ack_low", "punch_output_io_off"}
  \/ (pc = "wait_for_no_request" \/ (InDebounce /\ ret = "wait_for_no_request"))
       /\ wret \in {"read_input_io_off", "punch_output_io_off"}

\* the loop is polling: sampling the lines or classifying the sample
Polling == pc \in {"loop", "classify"} \/ (InDebounce /\ ret = "classify")

\* C37: the in-progress indicator is high only between the start and the end
\* of a transfer, low whenever the loop is polling, and low in every state
\* after a fault has been raised
C37_IoIndicator ==
  /\ IoHigh => InTransfer
  /\ Polling => ~IoHigh
  /\ fail_code # 0 => ~IoHigh

\* what each failure code of the test program stands for, by its name
FaultAbout(code) ==
  CASE code = REQUEST_FAIL_T -> "wrong request type seen"
    [] code = TIMEOUT_FAIL -> "wait for request timed out"
    [] code = LOGGING_FAIL_T -> "logging"
    [] code = TEST_FAIL -> "test failed"
    [] code = EXIT_FAIL -> "program exited"
    [] OTHER -> "undefined"

\* C38: the handler of the test program indexes error_messages within the
\* table, and the message it prints bears the number of the fault raised
\* and speaks of that fault
C38_MessageOfFault ==
  [][(pc = "t_cancel" /\ pc' = "t_pause")
       => /\ fail_code + 1 \in DOMAIN ErrorTable
          /\ sent'[2].number = fail_code
          /\ sent'[2].about = FaultAbout(fail_code)]_vars

(***************************************************************************)
(* loopback_test (picopts.c, first program of the file): the eight reader  *)
(* output lines are wired to the eight punch input lines.  main calls it   *)
(* with every output low.  The pins are those of the 26/06/2021 variant.   *)
(***************************************************************************)
\* cycles of the test, for the 50000 of the source
LoopCycles == 1
ErrorLimit == 10

\* gpio_get_all() with the loopback plug fitted: the outputs as driven, and
\* each punch line at the level of the reader line wired to it
loopback(out, rdr, pun) == BitOr(out, Shl(Shr(BitAnd(out, Shl(WordOf(255), rdr)), rdr), pun))

\* a decoding that keeps seven of the eight lines
loop_read_7bit(pins) == ValueOf(BitAnd(Shr(pins, PUN_1_PIN21), WordOf(127)))

\* (gpio_get_all() >> PUN_1_PIN) & 255
loop_read(pins) == ValueOf(BitAnd(Shr(pins, PUN_1_PIN21), WordOf(255)))

\* for ( i = 0 ; i < cycles ; i++ ) { errors = 0; for ( j = 0 ; ...
loopback_for_i ==
  /\ pc = "l_for_i"
  /\ IF loop_i < LoopCycles
       THEN errors' = 0 /\ loop_j' = 0 /\ pc' = "l_for_j"
       ELSE pc' = "l_done" /\ UNCHANGED <<errors, loop_j>>
  /\ UNCHANGED <<ret, wret, gpio_out, blink, fail_code, sent, data, request,
                 tty, ch, xfer, dbv, bufv, timev, envv, blinkv, flashv, junev,
                 loop_i>>

\* ... ; j < 256 ; ... and i++ when the inner loop is done
loopback_for_j ==
  /\ pc = "l_for_j"
  /\ IF loop_j < 256
       THEN pc' = "l_write" /\ UNCHANGED loop_i
       ELSE pc' = "l_for_i" /\ loop_i' = loop_i + 1
  /\ UNCHANGED <<ret, wret, gpio_out, blink, fail_code, sent, data, request,
                 tty, ch, xfer, dbv, bufv, timev, envv, blinkv, flashv, junev,
                 loop_j, errors>>

\* gpio_put_masked(RDR_PINS_MASK, j<<RDR_1_PIN); busy_wait_us(0)
loopback_write ==
  /\ pc = "l_write"
  /\ gpio_out' = gpio_put_masked(gpio_out, RDR_PINS_MASK21,
                                 Shl(WordOf(loop_j), RDR_1_PIN21))
  /\ pc' = "l_read"
  /\ UNCHANGED <<ret, wret, blink, fail_code, sent, data, request,
                 tty, ch, xfer, dbv, bufv, timev, envv, blinkv, flashv, junev,
                 loopv>>

\* ch = (gpio_get_all() >> PUN_1_PIN) & 255
loopback_read ==
  /\ pc = "l_read"
  /\ ch' = loop_read(loopback(gpio_out, RDR_1_PIN21, PUN_1_PIN21))
  /\ pc' = "l_check"
  /\ UNCHANGED <<ret, wret, gpio_out, blink, fail_code, sent, data, request,
                 tty, xfer, dbv, bufv, timev, envv, blinkv, flashv, junev,
                 loopv>>

\* if ( ch != j ) { printf(...); if ( ++errors > 10 ) return; } and j++
loopback_check ==
  /\ pc = "l_check"
  /\ IF ch # loop_j
       THEN /\ errors' = errors + 1
            /\ IF errors' > ErrorLimit
                 THEN pc' = "l_done" /\ UNCHANGED loop_j
                 ELSE pc' = "l_for_j" /\ loop_j' = loop_j + 1
       ELSE /\ pc' = "l_for_j" /\ loop_j' = loop_j + 1
            /\ UNCHANGED errors
  /\ UNCHANGED <<ret, wret, gpio_out, blink, fail_code, sent, data, request,
                 tty, ch, xfer, dbv, bufv, timev, envv, blinkv, flashv, junev,
                 loop_i>>

\* main has cleared every output, made its four blinks and calls
\* loopback_test
InitLoop ==
  /\ pc = "l_for_i"
  /\ ret = "none"
  /\ wret = "none"
  /\ gpio_out = {}
  /\ blink = NO_BLINK
  /\ fail_code = 0
  /\ sent = <<>>
  /\ data = PICO_ERROR_TIMEOUT
  /\ request = {}
  /\ tty = 0
  /\ ch = 0
  /\ count = 0 /\ last = {} /\ next = {} /\ repeat = FALSE
  /\ buffer = <<>> /\ buf_ptr = 257 /\ buf_len = 0 /\ fill_i = 0
  /\ reply = <<>>
  /\ now = 0
  /\ reader_free = 0 /\ punch_free = 0 /\ tty_free = 0
  /\ reader_time = 0 /\ punch_time = 0 /\ tty_time = 0
  /\ xfer = "idle"
  /\ last_gate = <<>>
  /\ gates = 0
  /\ gated = <<>>
  /\ punLines = {0}
  /\ opBytes = {65}
  /\ opCounts = 0..MaxCount
  /\ logLevels = {1}
  /\ steady = TRUE
  /\ pc1 = "m_start" /\ led_state = 0 /\ blink_seen = NO_BLINK /\ slept = 0
  /\ monitoring = FALSE /\ flash_j = 0
  /\ polls = 0 /\ max_poll = 0 /\ cycles = 0 /\ logging_enabled = 1
  /\ holdPolls = {}
  /\ loop_i = 0 /\ loop_j = 0 /\ errors = 0

NextLoop ==
  \/ loopback_for_i \/ loopback_for_j \/ loopback_write \/ loopback_read
  \/ loopback_check

SpecLoop == InitLoop /\ [][NextLoop]_vars

\* the output lines besides the data lines, in any combination, of the
\* 20/11/2023 revision and of picopts.c
OtherOutputs == SUBSET {ACK_PIN, IO_PIN, LED_PIN, STATUS_PIN}
OtherOutputs21 == SUBSET {NOPOWER_PIN21, ACK_PIN21, LED_PIN}

\* C40: for every byte, the masked write of the byte followed by the
\* decoding of the looped-back sample yields the byte, and the write changes
\* no line but the eight data lines: in loopback_test step by step, and for
\* put_read_data and get_punch_data of the 20/11/2023 revision whatever the
\* other output lines are
C40_LoopbackRoundTrip ==
  /\ [][pc = "l_write"
          => /\ gpio_out' \ RDR_PINS_MASK21 = gpio_out \ RDR_PINS_MASK21
             /\ ValueOf(Shr(BitAnd(gpio_out', RDR_PINS_MASK21), RDR_1_PIN21)) = loop_j]_vars
  /\ [][pc = "l_read" => ch' = loop_j]_vars
  /\ [](errors = 0)
  /\ [](loop_j \in 0..255 =>
          /\ \A out \in OtherOutputs :
               /\ put_read_data(out, loop_j) \ RDR_PINS_MASK = out \ RDR_PINS_MASK
               /\ get_punch_data(loopback(put_read_data(out, loop_j),
                                          RDR_1_PIN, PUN_1_PIN)) = loop_j
          /\ \A x \in OtherOutputs21 :
               LET out == BitOr(gpio_out, x)
                   new == gpio_put_masked(out, RDR_PINS_MASK21,
                                          Shl(WordOf(loop_j), RDR_1_PIN21))
               IN /\ new \ RDR_PINS_MASK21 = out \ RDR_PINS_MASK21
                  /\ loop_read(loopback(new, RDR_1_PIN21, PUN_1_PIN21)) = loop_j)

\* the last byte has made the round trip
C40_Witness ==
  /\ pc = "l_check"
  /\ loop_j = 255 /\ ch = 255
  /\ errors = 0

====
